---- MODULE Spec2Model ----
(***************************************************************************)
(* JobSearchBuddy: the strict and the generic Block Extractor and the      *)
(* Evidence Merger (app/core/structure_parser.py,                          *)
(* app/core/experience_extractor.py).                                      *)
(*                                                                         *)
(* A Python str is a sequence of one-character strings; a text is the      *)
(* sequence of its lines (what str.splitlines() returns).  The characters  *)
(* outside ASCII are written by their code points: "u2022" is the bullet,  *)
(* "u2013" the en dash, "u2014" the em dash; each is one character.        *)
(***************************************************************************)
EXTENDS Integers, Sequences, FiniteSets, TLC

VARIABLES
    strategy,        \* which extractor scans: "strict" | "generic"
    lines,           \* the stripped, non-blank lines being scanned
    source_file,     \* the file the lines come from
    i,               \* outer scan index (0-based, as in the code)
    j,               \* inner scan index of build_experience_blocks
    pc,              \* position of the scan: "outer" | "inner" | "done"
    company,         \* header line of the open block (company / header)
    dates,           \* dates of the open block
    title,           \* title line of the open block (strict only)
    bullets,         \* bullets of the open block
    bullet_pending,  \* a standalone bullet marker was just read (strict)
    raw_lines,       \* raw evidence of the open block (generic)
    roles,           \* blocks returned so far (roles / blocks)
    kind,            \* which merger runs: "roles" | "education" | "generic"
    all_blocks,      \* the merger's argument as passed in (never written)
    heap,            \* the argument's block objects, as the merger mutates them
    merged,          \* the merger's dict: <<[key, ref]>> in insertion order
    n,               \* number of blocks of the argument the loop has consumed
    mpc,             \* position of the merge run: "loop" | "returned" | ...
    out,             \* result of the follow-up call (re-merge, render, ...)
    extracted,       \* the ExtractedChunk list the extractor handed over
    chunker,         \* the Chunker and the locals of its chunk() call
    run              \* the locals of main() and the calls it has made

scanVars == <<strategy, lines, source_file, i, j, pc, company, dates, title,
              bullets, bullet_pending, raw_lines, roles>>
mergeVars == <<kind, all_blocks, heap, merged, n, mpc, out>>
ingestVars == <<extracted, chunker, run>>
vars == <<scanVars, mergeVars, ingestVars>>

----------------------------------------------------------------------------
(* Characters and the str methods the code uses.                           *)

Whitespace == {" ", "\t", "\n"}
UpperLetters == <<"A","B","C","D","E","F","G","H","I","J","K","L","M","N","O","P","Q","R","S","T","U","V","W","X","Y","Z">>
LowerLetters == <<"a","b","c","d","e","f","g","h","i","j","k","l","m","n","o","p","q","r","s","t","u","v","w","x","y","z">>
Digits == {"0","1","2","3","4","5","6","7","8","9"}

UpperSet == {UpperLetters[k] : k \in 1..26}
LowerSet == {LowerLetters[k] : k \in 1..26}
IsWordCh(c) == c \in UpperSet \/ c \in LowerSet \/ c \in Digits \/ c = "_"

lower_ch(c) ==
    IF c \in UpperSet THEN LowerLetters[CHOOSE k \in 1..26 : UpperLetters[k] = c]
    ELSE c

\* str.lower()
lower(s) == [k \in 1..Len(s) |-> lower_ch(s[k])]

\* str.isupper(): at least one cased character and no lower-case one
isupper(s) ==
    /\ \E k \in 1..Len(s) : s[k] \in UpperSet
    /\ \A k \in 1..Len(s) : s[k] \notin LowerSet

Min(S) == CHOOSE x \in S : \A y \in S : x <= y
Max(S) == CHOOSE x \in S : \A y \in S : x >= y

\* str.lstrip(chars) / str.rstrip(chars) / str.strip()
lstrip(s, chars) ==
    LET keep == {k \in 1..Len(s) : s[k] \notin chars}
    IN  IF keep = {} THEN <<>> ELSE SubSeq(s, Min(keep), Len(s))
rstrip(s, chars) ==
    LET keep == {k \in 1..Len(s) : s[k] \notin chars}
    IN  IF keep = {} THEN <<>> ELSE SubSeq(s, 1, Max(keep))
strip(s) == rstrip(lstrip(s, Whitespace), Whitespace)

\* str.split(): the maximal runs of non-whitespace characters
RECURSIVE split(_)
split(s) ==
    LET t == lstrip(s, Whitespace)
        ws == {k \in 1..Len(t) : t[k] \in Whitespace}
        e == IF ws = {} THEN Len(t) + 1 ELSE Min(ws)
    IN  IF t = <<>> THEN <<>>
        ELSE <<SubSeq(t, 1, e - 1)>> \o split(SubSeq(t, e, Len(t)))

\* sep.join(parts)
RECURSIVE join(_, _)
join(sep, parts) ==
    IF parts = <<>> THEN <<>>
    ELSE IF Len(parts) = 1 THEN parts[1]
    ELSE parts[1] \o sep \o join(sep, Tail(parts))

\* sub in s (at 1-based position p) / s.startswith(sub)
SubstrAt(s, p, sub) ==
    /\ p >= 1
    /\ p + Len(sub) - 1 <= Len(s)
    /\ \A k \in 1..Len(sub) : s[p + k - 1] = sub[k]
contains(s, sub) == \E p \in 1..Len(s) : SubstrAt(s, p, sub)
startswith(s, sub) == SubstrAt(s, 1, sub)

normalize(s) == strip(join(<<" ">>, split(lower(s))))

----------------------------------------------------------------------------
(* The regular expressions.                                                *)

Months == {<<"j","a","n">>, <<"f","e","b">>, <<"m","a","r">>, <<"a","p","r">>,
           <<"m","a","y">>, <<"j","u","n">>, <<"j","u","l">>, <<"a","u","g">>,
           <<"s","e","p">>, <<"s","e","p","t">>, <<"o","c","t">>, <<"n","o","v">>,
           <<"d","e","c">>}
EndWords == {<<"p","r","e","s","e","n","t">>, <<"c","u","r","r","e","n","t">>}

\* (?i)word at 1-based position p
WordAt(s, p, w) ==
    /\ p >= 1
    /\ p + Len(w) - 1 <= Len(s)
    /\ \A k \in 1..Len(w) : lower_ch(s[p + k - 1]) = w[k]
\* \d{4} at position p
Year4At(s, p) == p >= 1 /\ p + 3 <= Len(s) /\ \A k \in 0..3 : s[p + k] \in Digits
\* \b just before position p (p = Len(s) + 1: at the end)
WordBoundary(s, p) ==
    LET w(k) == k >= 1 /\ k <= Len(s) /\ IsWordCh(s[k])
    IN  w(p - 1) # w(p)
\* \b(present|current|\d{4})\b at position p: the set of positions just after it
EndTokenEnds(s, p) ==
    IF ~WordBoundary(s, p) THEN {}
    ELSE {e \in {p + 4} \cup {p + Len(w) : w \in EndWords} :
            /\ \/ e = p + 4 /\ Year4At(s, p)
               \/ \E w \in EndWords : e = p + Len(w) /\ WordAt(s, p, w)
            /\ WordBoundary(s, e)}

\* DATE_LINE_RE.search(s) is not None
DATE_LINE_RE_search(s) ==
    \/ \E a \in 1..Len(s) :
          /\ WordBoundary(s, a)
          /\ \E m \in Months :
                /\ WordAt(s, a, m)
                /\ WordBoundary(s, a + Len(m))
                /\ \E c \in (a + Len(m))..Len(s) :
                      /\ Year4At(s, c)
                      /\ WordBoundary(s, c)
                      /\ WordBoundary(s, c + 4)
                      /\ \E e \in (c + 4)..Len(s) : EndTokenEnds(s, e) # {}
    \/ \E c \in 1..Len(s) : Year4At(s, c) /\ \E e \in (c + 4)..Len(s) : Year4At(s, e)

\* \b(month\.?\s*\d{4}|\d{4})\b at position a: the positions just after it
DateStartEnds(s, a) ==
    IF ~WordBoundary(s, a) THEN {}
    ELSE {g \in (a + 4)..(Len(s) + 1) :
            /\ Year4At(s, g - 4)
            /\ WordBoundary(s, g)
            /\ \/ g = a + 4
               \/ \E m \in Months, dot \in {0, 1} :
                     /\ WordAt(s, a, m)
                     /\ dot = 1 => SubstrAt(s, a + Len(m), <<".">>)
                     /\ g - 4 >= a + Len(m) + dot
                     /\ \A k \in (a + Len(m) + dot)..(g - 5) : s[k] \in Whitespace}

\* DATE_RE.search(s): [found, group0]; the leftmost match, its .* greedy
DATE_RE_search(s) ==
    LET tails(a) == UNION {UNION {EndTokenEnds(s, e) : e \in g..Len(s)} :
                              g \in DateStartEnds(s, a)}
        starts == {a \in 1..Len(s) : tails(a) # {}}
    IN  IF starts = {} THEN [found |-> FALSE, group0 |-> <<>>]
        ELSE [found |-> TRUE,
              group0 |-> SubSeq(s, Min(starts), Max(tails(Min(starts))) - 1)]

BulletMarkers == {"u2022", "-", "u2013"}

\* a match whose group keeps the marker
BULLET_RE_whole(s) ==
    LET t == lstrip(s, Whitespace)
    IN  IF Len(t) >= 2 /\ t[1] \in BulletMarkers
        THEN [found |-> TRUE, group1 |-> t]
        ELSE [found |-> FALSE, group1 |-> <<>>]

\* BULLET_RE.match(s): [found, group1]
BULLET_RE_match(s) ==
    LET t == lstrip(s, Whitespace)
        r == IF t = <<>> THEN <<>> ELSE Tail(t)
        g == lstrip(r, Whitespace)
    IN  IF Len(t) >= 2 /\ t[1] \in BulletMarkers
        THEN [found |-> TRUE, group1 |-> IF g = <<>> THEN <<r[Len(r)]>> ELSE g]
        ELSE [found |-> FALSE, group1 |-> <<>>]

----------------------------------------------------------------------------
(* The scans of the Block Extractor.  A scan is the record of the scan     *)
(* variables; one step is one iteration of the loop the scan is in.        *)

\* t[k] with Python's 0-based index
At(t, k) == t[k + 1]

\* [ln.strip() for ln in text.splitlines() if ln.strip()]
RECURSIVE StripLines(_)
StripLines(text) ==
    IF text = <<>> THEN <<>>
    ELSE IF strip(text[1]) = <<>> THEN StripLines(Tail(text))
    ELSE <<strip(text[1])>> \o StripLines(Tail(text))

RoleBlock(c, d, t, b, sf) ==
    [company_line |-> c, dates_line |-> d, title_line |-> t, bullets |-> b,
     source_files |-> sf]

ExperienceBlock(k, h, d, sf, b, raw) ==
    [role_key |-> k, title_company |-> h, dates |-> d, source_files |-> sf,
     bullets |-> b, raw_lines |-> raw]

\* the locals of a scan on entry to its outer loop
ScanStart(strat, ls, f) ==
    [strategy |-> strat, lines |-> ls, source_file |-> f, i |-> 0, j |-> 0,
     pc |-> "outer", company |-> <<>>, dates |-> <<>>, title |-> <<>>,
     bullets |-> <<>>, bullet_pending |-> FALSE, raw_lines |-> <<>>,
     roles |-> <<>>]

\* the role-header test of the outer loop
IsRoleHeader(ls, k) == k + 2 < Len(ls) /\ DATE_LINE_RE_search(At(ls, k + 1))

\* the "next role heuristic" of the inner loop
IsNextRole(ls, k) ==
    /\ k + 2 < Len(ls)
    /\ DATE_LINE_RE_search(At(ls, k + 1))
    /\ (contains(strip(At(ls, k)), <<"|">>) \/ isupper(strip(At(ls, k))))

\* a parser that keeps a role whether or not it collected a bullet
CloseRoleAlways(st) ==
    Append(st.roles, RoleBlock(st.company, st.dates, st.title, st.bullets,
                               <<st.source_file>>))

\* roles.append(...) if the open block has bullets
CloseRole(st) ==
    IF st.bullets # <<>>
    THEN Append(st.roles, RoleBlock(st.company, st.dates, st.title, st.bullets,
                                    <<st.source_file>>))
    ELSE st.roles

\* which branch one iteration of parse_work_experience's loops takes
PWE_branch(st) ==
    LET ls == st.lines
        k == st.i
        ln == strip(At(ls, k))
    IN  IF st.pc = "outer" THEN
            IF k >= Len(ls) THEN "return"
            ELSE IF IsRoleHeader(ls, k) THEN "open"
            ELSE "skip"
        ELSE IF k >= Len(ls) THEN "end"
        ELSE IF IsNextRole(ls, k) THEN "break"
        ELSE IF ln \in {<<"u2022">>, <<"-">>, <<"u2013">>} THEN "marker"
        ELSE IF BULLET_RE_match(ln).found THEN "bullet"
        ELSE IF st.bullet_pending THEN "pending"
        ELSE "continuation"

\* one iteration of parse_work_experience's outer or inner loop
PWE_step(st) ==
    LET ls == st.lines
        k == st.i
        ln == strip(At(ls, k))
        br == PWE_branch(st)
    IN  CASE br = "return" -> [st EXCEPT !.pc = "done"]
          [] br = "open" ->
                [st EXCEPT !.company = At(ls, k), !.dates = At(ls, k + 1),
                           !.title = At(ls, k + 2), !.i = k + 3,
                           !.bullets = <<>>, !.bullet_pending = FALSE,
                           !.pc = "inner"]
          [] br = "skip" -> [st EXCEPT !.i = k + 1]
          [] br \in {"end", "break"} ->
                [st EXCEPT !.roles = CloseRole(st), !.pc = "outer"]
          [] br = "marker" -> [st EXCEPT !.bullet_pending = TRUE, !.i = k + 1]
          [] br = "bullet" ->
                [st EXCEPT !.bullets = Append(@, strip(BULLET_RE_match(ln).group1)),
                           !.bullet_pending = FALSE, !.i = k + 1]
          [] br = "pending" ->
                [st EXCEPT !.bullets = Append(@, ln), !.bullet_pending = FALSE,
                           !.i = k + 1]
          [] br = "continuation" ->
                IF st.bullets # <<>>
                THEN [st EXCEPT !.bullets[Len(st.bullets)] =
                                    strip(@ \o <<" ">> \o ln),
                                !.i = k + 1]
                ELSE [st EXCEPT !.i = k + 1]

RECURSIVE PWE_run(_)
PWE_run(st) == IF st.pc = "done" THEN st ELSE PWE_run(PWE_step(st))

parse_work_experience(work_text, f) ==
    PWE_run(ScanStart("strict", StripLines(work_text), f)).roles

ROLE_HEADER_HINTS ==
    <<<<"e","x","p","e","r","i","e","n","c","e">>,
      <<"w","o","r","k"," ","e","x","p","e","r","i","e","n","c","e">>,
      <<"p","r","o","f","e","s","s","i","o","n","a","l"," ","e","x","p","e","r","i","e","n","c","e">>,
      <<"e","m","p","l","o","y","m","e","n","t">>>>

norm(s) == strip(join(<<" ">>, split(lower(s))))

looks_like_role_header(line) ==
    LET l == strip(line)
    IN  /\ Len(l) >= 8
        /\ \/ contains(l, <<" ", "u2014", " ">>)
           \/ contains(l, <<" ", "-", " ">>)
           \/ DATE_RE_search(l).found

\* the literal set of line 52 holds the first three hints
is_section_header(line) ==
    LET l == norm(line)
    IN  \/ \E h \in 1..4 : contains(l, ROLE_HEADER_HINTS[h])
        \/ l \in {ROLE_HEADER_HINTS[1], ROLE_HEADER_HINTS[2], ROLE_HEADER_HINTS[3]}

\* blocks.append(...) if the candidate has bullets
CloseBlock(st) ==
    IF st.bullets # <<>>
    THEN Append(st.roles, ExperienceBlock(norm(st.company), st.company, st.dates,
                                          <<st.source_file>>, st.bullets,
                                          st.raw_lines))
    ELSE st.roles

\* which branch one iteration of build_experience_blocks' loops takes
BEB_branch(st) ==
    LET ls == st.lines
        ln == At(ls, st.i)
        nxt == strip(At(ls, st.j))
    IN  IF st.pc = "outer" THEN
            IF st.i >= Len(ls) THEN "return"
            ELSE IF is_section_header(ln) THEN "section"
            ELSE IF looks_like_role_header(ln) THEN "open"
            ELSE "skip"
        ELSE IF st.j >= Len(ls) THEN "end"
        ELSE IF is_section_header(nxt) \/ looks_like_role_header(nxt) THEN "break"
        ELSE IF startswith(nxt, <<"-", " ">>) \/ startswith(nxt, <<"u2022">>)
             THEN "bullet"
        ELSE "raw"

\* one iteration of build_experience_blocks' outer or inner loop (one file)
BEB_step(st) ==
    LET ls == st.lines
        ln == At(ls, st.i)
        nxt == strip(At(ls, st.j))
        m == DATE_RE_search(ln)
        br == BEB_branch(st)
    IN  CASE br = "return" -> [st EXCEPT !.pc = "done"]
          [] br \in {"section", "skip"} -> [st EXCEPT !.i = @ + 1]
          [] br = "open" ->
                [st EXCEPT !.company = ln,
                           !.dates = IF m.found THEN m.group0 ELSE <<>>,
                           !.bullets = <<>>, !.raw_lines = <<ln>>,
                           !.j = st.i + 1, !.pc = "inner"]
          [] br \in {"end", "break"} ->
                [st EXCEPT !.roles = CloseBlock(st), !.i = st.j, !.pc = "outer"]
          [] br = "bullet" ->
                [st EXCEPT !.bullets =
                               Append(@, strip(lstrip(lstrip(nxt, {"u2022"}), {"-"}))),
                           !.raw_lines = Append(@, nxt), !.j = @ + 1]
          [] br = "raw" -> [st EXCEPT !.raw_lines = Append(@, nxt), !.j = @ + 1]

RECURSIVE BEB_run(_)
BEB_run(st) == IF st.pc = "done" THEN st ELSE BEB_run(BEB_step(st))

----------------------------------------------------------------------------
(* The extraction run: one scan of one file's lines, step by step.         *)

MaxLines == 6
MaxGenericLines == 5

s_Ac == <<"A","c">>
s_DEV == <<"D","E","V">>
s_dates == <<"2","0","2","0","-","2","0","2","1">>
s_bullet_x == <<"u2022"," ","x">>
s_marker == <<"u2022">>
s_header == <<"D","e","v"," ","-"," ","A","c">>
s_section == <<"E","x","p","e","r","i","e","n","c","e">>
s_raw == <<"z">>

\* lines of a work-experience region / of a whole file
StrictLines == {s_Ac, s_DEV, s_dates, s_bullet_x, s_marker}
GenericLines == {s_header, s_dates, s_section, s_bullet_x, s_raw}

SeqsUpTo(S, max) == UNION {[1..len -> S] : len \in 0..max}

\* the source files, in the order sorted() puts their names
Files == <<"a.pdf", "b.pdf">>

Cur ==
    [strategy |-> strategy, lines |-> lines, source_file |-> source_file,
     i |-> i, j |-> j, pc |-> pc, company |-> company, dates |-> dates,
     title |-> title, bullets |-> bullets, bullet_pending |-> bullet_pending,
     raw_lines |-> raw_lines, roles |-> roles]

ScanIs(st) ==
    /\ strategy = st.strategy
    /\ lines = st.lines
    /\ source_file = st.source_file
    /\ i = st.i
    /\ j = st.j
    /\ pc = st.pc
    /\ company = st.company
    /\ dates = st.dates
    /\ title = st.title
    /\ bullets = st.bullets
    /\ bullet_pending = st.bullet_pending
    /\ raw_lines = st.raw_lines
    /\ roles = st.roles

ScanBecomes(st) ==
    /\ strategy' = st.strategy
    /\ lines' = st.lines
    /\ source_file' = st.source_file
    /\ i' = st.i
    /\ j' = st.j
    /\ pc' = st.pc
    /\ company' = st.company
    /\ dates' = st.dates
    /\ title' = st.title
    /\ bullets' = st.bullets
    /\ bullet_pending' = st.bullet_pending
    /\ raw_lines' = st.raw_lines
    /\ roles' = st.roles

MergeIdle ==
    /\ kind = "none"
    /\ all_blocks = <<>>
    /\ heap = <<>>
    /\ merged = <<>>
    /\ n = 0
    /\ mpc = "idle"
    /\ out = <<>>

\* no chunk() call and no main() run
IngestIdle ==
    /\ extracted = <<>>
    /\ chunker = [pc |-> "idle"]
    /\ run = [pc |-> "idle"]

InitExtract ==
    /\ \E strat \in {"strict", "generic"} :
       \E text \in IF strat = "strict" THEN SeqsUpTo(StrictLines, MaxLines)
                    ELSE SeqsUpTo(GenericLines, MaxGenericLines) :
          ScanIs(ScanStart(strat, StripLines(text), "a.pdf"))
    /\ MergeIdle
    /\ IngestIdle

PWE_takes(br) == strategy = "strict" /\ pc # "done" /\ PWE_branch(Cur) = br
PWE_effect == ScanBecomes(PWE_step(Cur)) /\ UNCHANGED <<mergeVars, ingestVars>>

PWE_open == PWE_takes("open") /\ PWE_effect
PWE_skip == PWE_takes("skip") /\ PWE_effect
PWE_return == PWE_takes("return") /\ PWE_effect
PWE_break == PWE_takes("break") /\ PWE_effect
PWE_end == PWE_takes("end") /\ PWE_effect
PWE_marker == PWE_takes("marker") /\ PWE_effect
PWE_bullet == PWE_takes("bullet") /\ PWE_effect
PWE_pending == PWE_takes("pending") /\ PWE_effect
PWE_continuation == PWE_takes("continuation") /\ PWE_effect

BEB_takes(br) == strategy = "generic" /\ pc # "done" /\ BEB_branch(Cur) = br
BEB_effect == ScanBecomes(BEB_step(Cur)) /\ UNCHANGED <<mergeVars, ingestVars>>

BEB_section == BEB_takes("section") /\ BEB_effect
BEB_open == BEB_takes("open") /\ BEB_effect
BEB_skip == BEB_takes("skip") /\ BEB_effect
BEB_return == BEB_takes("return") /\ BEB_effect
BEB_break == BEB_takes("break") /\ BEB_effect
BEB_end == BEB_takes("end") /\ BEB_effect
BEB_bullet == BEB_takes("bullet") /\ BEB_effect
BEB_raw == BEB_takes("raw") /\ BEB_effect

NextExtract ==
    \/ PWE_open \/ PWE_skip \/ PWE_return \/ PWE_break \/ PWE_end
    \/ PWE_marker \/ PWE_bullet \/ PWE_pending \/ PWE_continuation
    \/ BEB_section \/ BEB_open \/ BEB_skip \/ BEB_return \/ BEB_break
    \/ BEB_end \/ BEB_bullet \/ BEB_raw

SpecExtract == InitExtract /\ [][NextExtract]_vars
----------------------------------------------------------------------------
(* The Evidence Merger.  The argument list holds references: heap[ref] is  *)
(* the block object, merged[key] = r stores the reference, and a collision *)
(* writes the fields of the stored object.  A merge run is the record      *)
(* [heap, args, merged, n].                                                *)

\* sorted(fs) without set(): every occurrence is kept
sorted_list(fs) ==
    LET occ(f) == SelectSeq(fs, LAMBDA g : g = f)
    IN  occ(Files[1]) \o occ(Files[2])

\* sorted(list(set(fs)))
sorted_set(fs) == SelectSeq(Files, LAMBDA f : \E k \in 1..Len(fs) : fs[k] = f)

\* set(bs): the bullets as written, not normalized
SeenRaw(bs) == {bs[k] : k \in 1..Len(bs)}

\* set(normalize(b) for b in bs)
SeenOf(bs) == {normalize(bs[k]) : k \in 1..Len(bs)}

\* for b in new: nb = normalize(b); if nb not in seen: append, seen.add
RECURSIVE AppendUnseen(_, _, _)
AppendUnseen(exb, seen, new) ==
    IF new = <<>> THEN exb
    ELSE IF normalize(new[1]) \in seen THEN AppendUnseen(exb, seen, Tail(new))
    ELSE AppendUnseen(Append(exb, new[1]), seen \cup {normalize(new[1])}, Tail(new))

Longer(cand, cur) == IF Len(cand) > Len(cur) THEN cand ELSE cur

RoleKey(r) ==
    normalize(r.company_line) \o <<"|">> \o normalize(r.dates_line) \o <<"|">>
        \o normalize(r.title_line)
EducationKey(e) == normalize(e.institution_line) \o <<"|">> \o normalize(e.degree_line)

MergeKey(kd, b) ==
    CASE kd = "roles" -> RoleKey(b)
      [] kd = "education" -> EducationKey(b)
      [] kd = "generic" -> b.role_key

\* the collision branch of merge_roles / merge_education / dedupe_and_merge_blocks
Collide(kd, ex, r) ==
    CASE kd = "roles" ->
            [ex EXCEPT !.source_files = sorted_set(ex.source_files \o r.source_files),
                       !.bullets = AppendUnseen(ex.bullets, SeenOf(ex.bullets), r.bullets)]
      [] kd = "education" ->
            [ex EXCEPT !.source_files = sorted_set(ex.source_files \o r.source_files)]
      [] kd = "generic" ->
            [ex EXCEPT !.source_files = sorted_set(ex.source_files \o r.source_files),
                       !.bullets = AppendUnseen(ex.bullets, SeenOf(ex.bullets), r.bullets),
                       !.title_company = Longer(r.title_company, ex.title_company),
                       !.dates = Longer(r.dates, ex.dates)]

\* a merger that compares only with the key it stored last
KeyHitsLast(mg, key) == {k \in {Len(mg)} : k >= 1 /\ mg[k].key = key}

\* the positions of key in the dict (none or one): key in merged
KeyHits(mg, key) == {k \in 1..Len(mg) : mg[k].key = key}

MergeStart(hp, args) == [heap |-> hp, args |-> args, merged |-> <<>>, n |-> 0]

\* one iteration of the merger's for loop
merge_step(kd, ms) ==
    LET ref == ms.args[ms.n + 1]
        r == ms.heap[ref]
        key == MergeKey(kd, r)
        hit == KeyHits(ms.merged, key)
    IN  IF hit = {}
        THEN [ms EXCEPT !.merged = Append(@, [key |-> key, ref |-> ref]),
                        !.n = @ + 1]
        ELSE LET ex == ms.merged[CHOOSE k \in hit : TRUE].ref
             IN  [ms EXCEPT !.heap[ex] = Collide(kd, ms.heap[ex], r), !.n = @ + 1]

RECURSIVE merge_run(_, _)
merge_run(kd, ms) ==
    IF ms.n = Len(ms.args) THEN ms ELSE merge_run(kd, merge_step(kd, ms))

\* list(merged.values())
Values(ms) == [k \in 1..Len(ms.merged) |-> ms.heap[ms.merged[k].ref]]

Refs(hp) == [k \in 1..Len(hp) |-> k]

\* the mergers as functions of a list of fresh blocks
merge_blocks(kd, blocks) == Values(merge_run(kd, MergeStart(blocks, Refs(blocks))))
merge_roles(all_roles) == merge_blocks("roles", all_roles)
merge_education(all_edu) == merge_blocks("education", all_edu)
dedupe_and_merge_blocks(blocks) == merge_blocks("generic", blocks)

EducationBlock(inst, deg, sf) ==
    [institution_line |-> inst, degree_line |-> deg, source_files |-> sf]

\* "\n".join(parts).strip() of build_experience_evidence, as lines: a blank line
\* parts every two roles, strip() drops the one after the last role
RECURSIVE build_experience_evidence(_)
build_experience_evidence(rs) ==
    IF rs = <<>> THEN <<>>
    ELSE <<rs[1].company_line, rs[1].dates_line, rs[1].title_line>>
         \o [k \in 1..Len(rs[1].bullets) |-> <<"u2022", " ">> \o rs[1].bullets[k]]
         \o (IF Len(rs) = 1 THEN <<>> ELSE <<<<>>>>)
         \o build_experience_evidence(Tail(rs))

\* an education evidence that writes the degree line as a bullet
RECURSIVE build_education_evidence_bulleted(_)
build_education_evidence_bulleted(es) ==
    IF es = <<>> THEN <<>>
    ELSE <<es[1].institution_line, <<"u2022", " ">> \o es[1].degree_line>>
         \o (IF Len(es) = 1 THEN <<>> ELSE <<<<>>>>)
         \o build_education_evidence_bulleted(Tail(es))

\* "\n".join(parts).strip() of build_education_evidence, as lines: per entry
\* the institution line, the degree line and a blank line; strip() drops the
\* blank line after the last entry
RECURSIVE build_education_evidence(_)
build_education_evidence(es) ==
    IF es = <<>> THEN <<>>
    ELSE <<es[1].institution_line, es[1].degree_line>>
         \o (IF Len(es) = 1 THEN <<>> ELSE <<<<>>>>)
         \o build_education_evidence(Tail(es))

----------------------------------------------------------------------------
(* The education scan of the strict Block Extractor.  The scan uses lines, *)
(* source_file, i, pc and roles (the list `out`); pc is "outer" in the     *)
(* loop over pairs and "inner" in the loop over the bullets after a pair.  *)

\* a pair test that looks at the institution line only
PairHasBulletInst(ls, k) == BULLET_RE_match(At(ls, k)).found

\* BULLET_RE.match(inst) or BULLET_RE.match(deg)
PairHasBullet(ls, k) ==
    BULLET_RE_match(At(ls, k)).found \/ BULLET_RE_match(At(ls, k + 1)).found

\* which branch one iteration of parse_education's loops takes
PE_branch(st) ==
    LET ls == st.lines
        k == st.i
    IN  IF st.pc = "outer" THEN
            IF ~(k < Len(ls) - 1) THEN "return"
            ELSE IF PairHasBullet(ls, k) THEN "skip"
            ELSE "emit"
        ELSE IF k < Len(ls) /\ BULLET_RE_match(At(ls, k)).found THEN "trailing"
        ELSE "next"

\* a scan that, after the bullets under an entry, goes back to the entry's
\* degree line
PE_step_rewind(st) ==
    LET ls == st.lines
        k == st.i
        br == PE_branch(st)
    IN  CASE br = "return" -> [st EXCEPT !.pc = "done"]
          [] br = "emit" ->
                [st EXCEPT !.roles = Append(@, EducationBlock(At(ls, k), At(ls, k + 1),
                                                              <<st.source_file>>)),
                           !.i = k + 2, !.pc = "inner"]
          [] br = "next" -> [st EXCEPT !.i = k - 1, !.pc = "outer"]
          [] OTHER -> [st EXCEPT !.i = k + 1]

\* one iteration of parse_education's outer or inner loop
PE_step(st) ==
    LET ls == st.lines
        k == st.i
        br == PE_branch(st)
    IN  CASE br = "return" -> [st EXCEPT !.pc = "done"]
          [] br = "skip" -> [st EXCEPT !.i = k + 1]
          [] br = "emit" ->
                [st EXCEPT !.roles = Append(@, EducationBlock(At(ls, k), At(ls, k + 1),
                                                              <<st.source_file>>)),
                           !.i = k + 2, !.pc = "inner"]
          [] br = "trailing" -> [st EXCEPT !.i = k + 1]
          [] br = "next" -> [st EXCEPT !.pc = "outer"]

RECURSIVE PE_run(_)
PE_run(st) == IF st.pc = "done" THEN st ELSE PE_run(PE_step(st))

parse_education(edu_text, f) ==
    PE_run(ScanStart("education", StripLines(edu_text), f)).roles

----------------------------------------------------------------------------
(* The merge run: the blocks of all files are merged, block by block; the  *)
(* result is then merged again, merged in batches, merged in another file  *)
(* order, or rendered to evidence text and parsed back.                    *)

MaxBlocks == 3

s_A_C == <<"A"," ","C">>
s_A__C == <<"A"," "," ","C">>
s_Bc == <<"B","c">>
s_d == <<"d">>
s_B == <<"B">>
s_B_c == <<"B","|","c">>
s_c_d == <<"c","|","d">>
s_years == <<"2","0","2","0"," ","-"," ","2","0","2","1">>
s_years_wide == <<"2","0","2","0"," "," ","-"," ","2","0","2","1">>

\* bullet lists of one block: a lone bullet, bullets equal to it up to case,
\* and a block that repeats its own bullet
BulletLists == <<<< <<"X">> >>, << <<"x">>, <<"y">> >>, << <<"y">>, <<"Y">> >>>>

\* (header, bullet list) of the blocks a file may hold: three spellings of one
\* header and another header
BlockShapes(h1, h1wide, h2) ==
    {<<h1, BulletLists[1]>>, <<h1wide, BulletLists[2]>>, <<h1, BulletLists[3]>>,
     <<h2, BulletLists[1]>>}

BulletLines(bs) == [k \in 1..Len(bs) |-> <<"u2022", " ">> \o bs[k]]

\* the blocks the extractors return for one-block texts
RoleBlocks ==
    {parse_work_experience(<<sh[1], s_dates, s_DEV>> \o BulletLines(sh[2]), f)[1] :
        sh \in BlockShapes(s_A_C, s_A__C, s_Bc), f \in {Files[k] : k \in 1..Len(Files)}}
EducationBlocks ==
    {parse_education(pair, f)[1] :
        pair \in {<<inst, s_d>> : inst \in {s_A_C, s_A__C, s_Bc, s_marker}}
                    \cup {<<s_B_c, s_d>>, <<s_B, s_c_d>>},
        f \in {Files[k] : k \in 1..Len(Files)}}
ExperienceBlocks ==
    {BEB_run(ScanStart("generic", <<sh[1]>> \o BulletLines(sh[2]), f)).roles[1] :
        sh \in BlockShapes(s_years, s_years_wide, s_header),
        f \in {Files[k] : k \in 1..Len(Files)}}

BlocksOf(kd) ==
    CASE kd = "roles" -> RoleBlocks
      [] kd = "education" -> EducationBlocks
      [] kd = "generic" -> ExperienceBlocks

\* the blocks of one file are adjacent: main extends the list file by file
GroupedByFile(bl) ==
    \A a, b, c \in 1..Len(bl) :
        a < b /\ b < c /\ bl[a].source_files = bl[c].source_files
            => bl[b].source_files = bl[a].source_files

\* the blocks of each file are what the extractor returns for a text of that
\* file: the text that lists them (an education region is any list of pairs)
Extractable(kd, bl) ==
    \A k \in 1..Len(Files) :
        LET mine == SelectSeq(bl, LAMBDA b : b.source_files = <<Files[k]>>)
            raw == [m \in 1..Len(mine) |-> mine[m].raw_lines]
        IN  CASE kd = "roles" ->
                    parse_work_experience(build_experience_evidence(mine), Files[k]) = mine
              [] kd = "education" -> TRUE
              [] kd = "generic" ->
                    BEB_run(ScanStart("generic", join(<<>>, raw), Files[k])).roles = mine

ScanIdle == ScanIs([ScanStart("none", <<>>, "") EXCEPT !.pc = "done"])

InitMerge ==
    /\ kind \in {"roles", "education", "generic"}
    /\ all_blocks \in {bl \in SeqsUpTo(BlocksOf(kind), MaxBlocks) :
                           GroupedByFile(bl) /\ Extractable(kind, bl)}
    /\ heap = all_blocks
    /\ merged = <<>>
    /\ n = 0
    /\ mpc = "loop"
    /\ out = <<>>
    /\ ScanIdle
    /\ IngestIdle

CurMerge == [heap |-> heap, args |-> Refs(heap), merged |-> merged, n |-> n]
Result == Values(CurMerge)

MergeBecomes(ms) ==
    /\ heap' = ms.heap
    /\ merged' = ms.merged
    /\ n' = ms.n
    /\ UNCHANGED <<kind, all_blocks, mpc, out>>
    /\ UNCHANGED <<scanVars, ingestVars>>

\* merged[key] = r
merge_new ==
    /\ mpc = "loop"
    /\ n < Len(heap)
    /\ KeyHits(merged, MergeKey(kind, heap[n + 1])) = {}
    /\ MergeBecomes(merge_step(kind, CurMerge))

\* key collision: the stored block takes the new block's evidence
merge_collide ==
    /\ mpc = "loop"
    /\ n < Len(heap)
    /\ KeyHits(merged, MergeKey(kind, heap[n + 1])) # {}
    /\ MergeBecomes(merge_step(kind, CurMerge))

\* return list(merged.values())
merge_return ==
    /\ mpc = "loop"
    /\ n = Len(heap)
    /\ mpc' = "returned"
    /\ UNCHANGED <<kind, all_blocks, heap, merged, n, out>>
    /\ UNCHANGED <<scanVars, ingestVars>>

\* the merger called on its own result, alone or concatenated with itself
merge_again ==
    /\ mpc = "returned"
    /\ \E twice \in BOOLEAN :
          LET refs == [k \in 1..Len(merged) |-> merged[k].ref]
              ms == merge_run(kind, MergeStart(heap, IF twice THEN refs \o refs ELSE refs))
          IN  /\ out' = Values(ms)
              /\ heap' = ms.heap
    /\ mpc' = "remerged"
    /\ UNCHANGED <<kind, all_blocks, merged, n>>
    /\ UNCHANGED <<scanVars, ingestVars>>

\* the same blocks merged in two consecutive batches, then the two results
merge_batches ==
    /\ mpc = "returned"
    /\ \E cut \in 0..Len(all_blocks) :
          out' = merge_blocks(kind,
                     merge_blocks(kind, SubSeq(all_blocks, 1, cut))
                         \o merge_blocks(kind, SubSeq(all_blocks, cut + 1, Len(all_blocks))))
    /\ mpc' = "batched"
    /\ UNCHANGED <<kind, all_blocks, heap, merged, n>>
    /\ UNCHANGED <<scanVars, ingestVars>>

\* the same files processed in the other order
merge_reordered ==
    /\ mpc = "returned"
    /\ \E first \in {Files[k] : k \in 1..Len(Files)} :
          out' = merge_blocks(kind,
                     SelectSeq(all_blocks, LAMBDA b : b.source_files = <<first>>)
                         \o SelectSeq(all_blocks, LAMBDA b : b.source_files # <<first>>))
    /\ mpc' = "reordered"
    /\ UNCHANGED <<kind, all_blocks, heap, merged, n>>
    /\ UNCHANGED <<scanVars, ingestVars>>

\* exp_evidence = build_experience_evidence(roles), parsed back
render_and_parse ==
    /\ mpc = "returned"
    /\ kind = "roles"
    /\ out' = parse_work_experience(build_experience_evidence(Result), "evidence")
    /\ mpc' = "reparsed"
    /\ UNCHANGED <<kind, all_blocks, heap, merged, n>>
    /\ UNCHANGED <<scanVars, ingestVars>>

\* edu_evidence = build_education_evidence(edus), parsed back
render_and_parse_education ==
    /\ mpc = "returned"
    /\ kind = "education"
    /\ out' = parse_education(build_education_evidence(Result), "evidence")
    /\ mpc' = "education_reparsed"
    /\ UNCHANGED <<kind, all_blocks, heap, merged, n>>
    /\ UNCHANGED <<scanVars, ingestVars>>

NextMerge ==
    \/ merge_new \/ merge_collide \/ merge_return
    \/ merge_again \/ merge_batches \/ merge_reordered \/ render_and_parse
    \/ render_and_parse_education

SpecMerge == InitMerge /\ [][NextMerge]_vars

----------------------------------------------------------------------------
(* Properties of the Evidence Merger, under SpecMerge.                     *)

Elems(sq) == {sq[k] : k \in 1..Len(sq)}
Keys(kd, bl) == [k \in 1..Len(bl) |-> MergeKey(kd, bl[k])]

\* the header strings of a block, and its bullets (an education block has none)
HeaderFields(kd, b) ==
    CASE kd = "roles" -> <<b.company_line, b.dates_line, b.title_line>>
      [] kd = "education" -> <<b.institution_line, b.degree_line>>
      [] kd = "generic" -> <<b.title_company, b.dates>>
BulletsOf(kd, b) == IF kd = "education" THEN <<>> ELSE b.bullets

\* the blocks of bl (a list of blocks as passed in) that carry the key
Contributing(kd, bl, key) == SelectSeq(bl, LAMBDA b : MergeKey(kd, b) = key)

\* the first occurrences of a list's elements, in order
RECURSIVE FirstOccurrences(_)
FirstOccurrences(sq) ==
    IF sq = <<>> THEN <<>>
    ELSE LET front == FirstOccurrences(SubSeq(sq, 1, Len(sq) - 1))
         IN  IF sq[Len(sq)] \in Elems(front) THEN front
             ELSE Append(front, sq[Len(sq)])

\* C1: processing the files in another order gives the same keys and, per key,
\* the same set of bullet strings and the same header, dates and title strings.
C1_CommutativeInFileOrder ==
    mpc = "reordered" =>
        {<<MergeKey(kind, b), HeaderFields(kind, b), Elems(BulletsOf(kind, b))>> :
            b \in Elems(out)}
        = {<<MergeKey(kind, b), HeaderFields(kind, b), Elems(BulletsOf(kind, b))>> :
            b \in Elems(Result)}

\* the bullets of a list of blocks one after the other
RECURSIVE AllBullets(_, _)
AllBullets(kd, bl) ==
    IF bl = <<>> THEN <<>> ELSE BulletsOf(kd, bl[1]) \o AllBullets(kd, Tail(bl))

\* C2: a representative's bullets are the deduplicated union of the bullets of
\* the contributing blocks: every contributing bullet's normalized text occurs,
\* no two bullets have equal normalized text, first-seen order is kept.
C2_BulletsAreDedupedUnion ==
    (mpc = "returned" /\ kind # "education") =>
        \A b \in Elems(Result) :
            LET given == AllBullets(kind, Contributing(kind, all_blocks, MergeKey(kind, b)))
                texts == [k \in 1..Len(b.bullets) |-> normalize(b.bullets[k])]
            IN  /\ \A k \in 1..Len(given) : normalize(given[k]) \in Elems(texts)
                /\ \A k, m \in 1..Len(texts) : texts[k] = texts[m] => k = m
                /\ texts = FirstOccurrences([k \in 1..Len(given) |-> normalize(given[k])])

\* C3: the result holds exactly one block per key of the input, in the order
\* in which the keys first occur in the input.
C3_OneBlockPerKeyInFirstOccurrenceOrder ==
    mpc = "returned" => Keys(kind, Result) = FirstOccurrences(Keys(kind, all_blocks))

C3_Witness ==
    /\ mpc = "returned"
    /\ Len(all_blocks) = 3
    /\ Len(Result) = 2
    /\ MergeKey(kind, all_blocks[1]) = MergeKey(kind, all_blocks[3])

\* C4: while merge_roles or dedupe_and_merge_blocks runs, each header field of
\* a representative is as long as the longest corresponding field of the
\* contributing blocks consumed so far.
C4_HeaderFieldsAreLongest ==
    kind \in {"roles", "generic"} =>
        \A e \in Elems(merged) :
            \A c \in Elems(Contributing(kind, SubSeq(all_blocks, 1, n), e.key)) :
                \A f \in DOMAIN HeaderFields(kind, c) :
                    Len(HeaderFields(kind, heap[e.ref])[f]) >= Len(HeaderFields(kind, c)[f])

\* C5: merging a merged result again, alone or concatenated with itself,
\* returns the merged result: same keys in the same order, same fields.
C5_Idempotent == mpc = "remerged" => out = merge_blocks(kind, all_blocks)

C5_Witness ==
    /\ mpc = "remerged"
    /\ Len(out) = 2
    /\ \E b \in Elems(out) : Len(b.source_files) = 2

\* C6: merging the results of two consecutive batches gives the result of
\* merging all blocks in one pass.
C6_AssociativeOverBatches == mpc = "batched" => out = merge_blocks(kind, all_blocks)

C6_Witness ==
    /\ mpc = "batched"
    /\ Len(all_blocks) = 3
    /\ Len(out) = 1
    /\ kind # "education" => Len(out[1].bullets) = 3

\* C7: parsing the rendered evidence of the merged roles gives back the roles:
\* as many blocks, in order, with the same header lines and bullets.
C7_EvidenceRoundTrip ==
    mpc = "reparsed" =>
        /\ Len(out) = Len(Result)
        /\ \A k \in 1..Len(out) :
              /\ HeaderFields("roles", out[k]) = HeaderFields("roles", Result[k])
              /\ out[k].bullets = Result[k].bullets

----------------------------------------------------------------------------
(* Properties of the Block Extractor, under SpecExtract.                   *)

\* C8: every block the scan has returned has at least one bullet, and so has
\* every block of the evidence merged from them.
C8_NoBlockWithoutBullets ==
    /\ \A b \in Elems(roles) : Len(b.bullets) >= 1
    /\ strategy = "strict" => \A b \in Elems(merge_roles(roles)) : Len(b.bullets) >= 1
    /\ strategy = "generic" =>
          \A b \in Elems(dedupe_and_merge_blocks(roles)) : Len(b.bullets) >= 1

\* a block was returned, and the candidate opened after it was discarded
C8_Witness ==
    /\ pc = "done"
    /\ Len(roles) >= 1
    /\ company # <<>>
    /\ bullets = <<>>

\* C9: the strict scan opens a role only on a line whose next line is a date
\* range and whose line after that is an upper-case title (upper case is the
\* least a "short, upper-case title" asks for).
C9_HeaderNeedsUpperCaseTitle ==
    (strategy = "strict" /\ pc = "inner") =>
        DATE_LINE_RE_search(dates) /\ isupper(title)

\* C10: while a role is open, a line that passes the test that opens a role
\* ends the role: the next step closes the block and leaves the line to open
\* its own.
C10_HeaderMatchEndsRole ==
    [][(strategy = "strict" /\ pc = "inner" /\ i < Len(lines) /\ IsRoleHeader(lines, i))
          => (pc' = "outer" /\ i' = i)]_vars

----------------------------------------------------------------------------
(* The education run: one scan of one file's education region.             *)

MaxEduLines == 6

\* lines of an education region: two plain lines, a bullet, a lone marker
EduLines == {s_Bc, s_d, s_bullet_x, s_marker}

InitEducation ==
    /\ \E text \in SeqsUpTo(EduLines, MaxEduLines) :
          ScanIs(ScanStart("education", StripLines(text), "a.pdf"))
    /\ MergeIdle
    /\ IngestIdle

PE_takes(br) == strategy = "education" /\ pc # "done" /\ PE_branch(Cur) = br
PE_effect == ScanBecomes(PE_step(Cur)) /\ UNCHANGED <<mergeVars, ingestVars>>

PE_skip == PE_takes("skip") /\ PE_effect
PE_emit == PE_takes("emit") /\ PE_effect
PE_trailing == PE_takes("trailing") /\ PE_effect
PE_next == PE_takes("next") /\ PE_effect
PE_return == PE_takes("return") /\ PE_effect

NextEducation == PE_skip \/ PE_emit \/ PE_trailing \/ PE_next \/ PE_return

SpecEducation == InitEducation /\ [][NextEducation]_vars

----------------------------------------------------------------------------
(* Properties of the education scan, under SpecEducation.                  *)

\* the iterations of a scan from st on: <<index, branch>> of each
RECURSIVE PE_visits(_)
PE_visits(st) ==
    IF st.pc = "done" THEN <<>>
    ELSE <<<<st.i, PE_branch(st)>>>> \o PE_visits(PE_step(st))

\* the indices (0-based) at which the scan of the current lines took branch br
VisitedAs(br) ==
    LET v == PE_visits(ScanStart("education", lines, source_file))
    IN  {v[m][1] : m \in {m \in 1..Len(v) : v[m][2] = br}}

\* the set S of integers as the ascending sequence
RECURSIVE Ascending(_)
Ascending(S) == IF S = {} THEN <<>> ELSE <<Min(S)>> \o Ascending(S \ {Min(S)})

\* the returned blocks are the emitted pairs, in document order
EmittedPairsAreReturned ==
    LET E == Ascending(VisitedAs("emit"))
    IN  roles = [m \in 1..Len(E) |->
                    EducationBlock(At(lines, E[m]), At(lines, E[m] + 1), <<source_file>>)]

\* no block holds a bullet line, the pairs of the blocks are disjoint, and the
\* bullet lines right after an emitted pair are in no pair the scan looks at
EmittedPairsAreClean ==
    /\ \A e \in VisitedAs("emit") : \A m \in {e, e + 1} :
          ~BULLET_RE_match(At(lines, m)).found
    /\ \A e1, e2 \in VisitedAs("emit") : e1 < e2 => e1 + 2 <= e2
    /\ \A e \in VisitedAs("emit") : \A k \in (e + 2)..(Len(lines) - 1) :
          (\A m \in (e + 2)..k : BULLET_RE_match(At(lines, m)).found)
              => k \in VisitedAs("trailing") /\ k \notin VisitedAs("emit") \cup VisitedAs("skip")

\* C11 (as stated): in parse_education a pair with a bullet line is skipped and
\* neither of its two lines is used in an emitted EducationBlock; no emitted
\* block has a bullet line, the emitted pairs are disjoint and in document
\* order, and the bullet lines after an emitted pair are skipped.
C11_NeitherLineOfSkippedPairIsUsed ==
    (strategy = "education" /\ pc = "done") =>
        /\ EmittedPairsAreReturned
        /\ \A k \in VisitedAs("skip"), e \in VisitedAs("emit") :
              {k, k + 1} \cap {e, e + 1} = {}
        /\ EmittedPairsAreClean

\* C11 (amended): a pair with a bullet line is not emitted and its first line
\* is used in no emitted block (the scan moves on by one line, so its second
\* line may open the next pair); the rest as stated.
C11_SkippedPairIsNotEmitted ==
    (strategy = "education" /\ pc = "done") =>
        /\ EmittedPairsAreReturned
        /\ \A k \in VisitedAs("skip"), e \in VisitedAs("emit") : k \notin {e, e + 1}
        /\ EmittedPairsAreClean

C11_Witness ==
    /\ strategy = "education"
    /\ pc = "done"
    /\ Len(roles) = 2
    /\ \E k \in VisitedAs("skip") : k + 1 \in VisitedAs("emit")
    /\ VisitedAs("trailing") # {}

----------------------------------------------------------------------------
(* The Chunk Normalizer (app/core/chunker.py).  Here a str keeps its line  *)
(* breaks: a text is one sequence of characters, "\n" among them.  An      *)
(* Optional[int] is <<>> for None and <<v>> for the value v.               *)

ExtractedChunk(f, pg, ord, txt, skipped) ==
    [source_file |-> f, page |-> pg, order |-> ord, text |-> txt,
     skipped |-> skipped]

\* x or 0
Or0(x) == IF x = <<>> THEN 0 ELSE x[1]

\* s[a:b] for 0 <= a <= b <= len(s)
Slice(s, a, b) == SubSeq(s, a + 1, b)

\* s.rfind(sep)
rfind(s, sep) ==
    LET ps == {p \in 1..Len(s) : SubstrAt(s, p, sep)}
    IN  IF ps = {} THEN -1 ELSE Max(ps) - 1

\* the characters of the source paths, for the f-string of _make_chunk_id
PathChars ==
    ("a.pdf" :> <<"a",".","p","d","f">>) @@ ("b.pdf" :> <<"b",".","p","d","f">>)

DigitChars == <<"0","1","2","3","4","5","6","7","8","9">>

\* str(n) for n >= 0
RECURSIVE str(_)
str(v) ==
    IF v < 10 THEN <<DigitChars[v + 1]>>
    ELSE str(v \div 10) \o <<DigitChars[(v % 10) + 1]>>

\* an identifier without the split index
make_chunk_id_of_source(ex, split_index) ==
    PathChars[ex.source_file] \o <<"|", "p">> \o str(Or0(ex.page))
        \o <<"|", "o">> \o str(Or0(ex.order))

\* _make_chunk_id: an absent page or order is written as 0
make_chunk_id(ex, split_index) ==
    PathChars[ex.source_file] \o <<"|", "p">> \o str(Or0(ex.page))
        \o <<"|", "o">> \o str(Or0(ex.order)) \o <<"|", "s">> \o str(split_index)

RAGChunk(ex, split_index, piece) ==
    [chunk_id |-> make_chunk_id(ex, split_index), text |-> piece,
     metadata |-> [source_file |-> ex.source_file, page |-> ex.page,
                   order |-> ex.order, split_index |-> split_index]]

separators == <<<<"\n">>, <<".", " ">>, <<";", " ">>, <<" ">>>>

\* a cut search that looks back over the whole window
find_nice_cut_whole(chunk) ==
    LET hits == {k \in 1..Len(separators) : rfind(chunk, separators[k]) # -1}
        sep == separators[Min(hits)]
    IN  IF hits = {} THEN [found |-> FALSE, cut |-> 0]
        ELSE [found |-> TRUE, cut |-> rfind(chunk, sep) + Len(sep)]

\* _find_nice_cut(chunk): [found, cut]; found = FALSE is None
find_nice_cut(chunk) ==
    LET lookback == Min({350, Len(chunk)})
        tail == Slice(chunk, Len(chunk) - lookback, Len(chunk))
        hits == {k \in 1..Len(separators) : rfind(tail, separators[k]) # -1}
        sep == separators[Min(hits)]
    IN  IF hits = {} THEN [found |-> FALSE, cut |-> 0]
        ELSE [found |-> TRUE,
              cut |-> Len(chunk) - lookback + rfind(tail, sep) + Len(sep)]

\* a Chunker and the locals of chunk() on entry; a piece of `chunks` is kept
\* as the bounds [start, end] of its slice text[start:end]
ChunkerStart(cfg) ==
    [max_chars |-> cfg.max_chars, overlap_chars |-> cfg.overlap_chars,
     min_chunk_chars |-> cfg.min_chunk_chars, ex |-> 0, base_text |-> <<>>,
     start |-> 0, chunks |-> <<>>, j |-> 0, rag_chunks |-> <<>>, pc |-> "next"]

\* a skip test that lets every chunk through
IsSkippedNever(c) == FALSE

\* ex.extra and ex.extra.get("skipped")
IsSkipped(c) == c.skipped

\* end = min(start + max_chars, n): the window before a separator is looked for
WindowEndRaw(ck) == Min({ck.start + ck.max_chars, Len(ck.base_text)})

\* the end of the window at ck.start: the nice cut if there is one past
\* min_chunk_chars, else start + max_chars, else the end of the text
WindowEnd(ck) ==
    LET len == Len(ck.base_text)
        end == Min({ck.start + ck.max_chars, len})
        cut == find_nice_cut(Slice(ck.base_text, ck.start, end))
    IN  IF end < len /\ cut.found /\ cut.cut > ck.min_chunk_chars
        THEN ck.start + cut.cut
        ELSE end

\* which branch one step of chunk() takes: the top of the loop over the
\* extracted chunks, one window of _split_with_overlap, or one piece
Chunk_branch(ck, exs) ==
    LET e == exs[ck.ex + 1]
        end == WindowEnd(ck)
        raw == WindowEndRaw(ck)
        piece == strip(Slice(ck.base_text, ck.chunks[ck.j + 1].start,
                             ck.chunks[ck.j + 1].end))
    IN  CASE ck.pc = "next" ->
                IF ck.ex >= Len(exs) THEN "return"
                ELSE IF IsSkipped(e) THEN "skipped"
                ELSE IF strip(e.text) = <<>> THEN "blank"
                ELSE IF Len(strip(e.text)) <= ck.max_chars THEN "whole"
                ELSE "long"
          [] ck.pc = "split" ->
                IF end >= Len(ck.base_text) THEN "last"
                ELSE IF end # raw THEN "cut"
                ELSE "full"
          [] ck.pc = "pieces" ->
                IF ck.j >= Len(ck.chunks) THEN "advance"
                ELSE IF Len(piece) < ck.min_chunk_chars THEN "drop"
                ELSE "emit"

\* one step of chunk()
Chunk_step(ck, exs) ==
    LET e == exs[ck.ex + 1]
        br == Chunk_branch(ck, exs)
        end == WindowEnd(ck)
        piece == strip(Slice(ck.base_text, ck.chunks[ck.j + 1].start,
                             ck.chunks[ck.j + 1].end))
    IN  CASE br = "return" -> [ck EXCEPT !.pc = "done"]
          [] br \in {"skipped", "blank"} -> [ck EXCEPT !.ex = @ + 1]
          [] br = "whole" ->
                [ck EXCEPT !.base_text = strip(e.text),
                           !.chunks = <<[start |-> 0, end |-> Len(strip(e.text))]>>,
                           !.j = 0, !.pc = "pieces"]
          [] br = "long" ->
                [ck EXCEPT !.base_text = strip(e.text), !.start = 0,
                           !.chunks = <<>>, !.pc = "split"]
          [] br = "last" ->
                [ck EXCEPT !.chunks = Append(@, [start |-> ck.start, end |-> end]),
                           !.j = 0, !.pc = "pieces"]
          [] br \in {"cut", "full"} ->
                [ck EXCEPT !.chunks = Append(@, [start |-> ck.start, end |-> end]),
                           !.start = Max({0, end - ck.overlap_chars})]
          [] br = "drop" -> [ck EXCEPT !.j = @ + 1]
          [] br = "emit" ->
                [ck EXCEPT !.rag_chunks = Append(@, RAGChunk(e, ck.j, piece)),
                           !.j = @ + 1]
          [] br = "advance" -> [ck EXCEPT !.ex = @ + 1, !.pc = "next"]

----------------------------------------------------------------------------
(* The chunking run: one chunk() call, step by step.                       *)

MaxText == 5
MaxPieces == 6

TextChars == {"a", " ", ".", "\n"}

\* max_chars, overlap_chars, min_chunk_chars of the Chunker: overlap < max
Configs ==
    {[max_chars |-> m[1], overlap_chars |-> m[2], min_chunk_chars |-> c] :
        m \in {<<2, 1>>, <<3, 0>>, <<3, 2>>}, c \in 0..2}

\* a text one character longer than its window of 352, with one blank at
\* position sp: at 2 the blank is before the last 350 characters of the
\* window, at 3 it is their first
LongText(sp) == [k \in 1..353 |-> IF k = sp THEN " " ELSE "a"]
LongConfig == [max_chars |-> 352, overlap_chars |-> 1, min_chunk_chars |-> 1]

\* a page of a.pdf with any text, a skip-flagged chunk, and an optional chunk
\* that follows (the next page, or a chunk with an order and no page); or a
\* long page under a wide window
InitChunk ==
    /\ \/ /\ \E first \in {ExtractedChunk("a.pdf", <<0>>, <<0>>, t, FALSE) :
                               t \in SeqsUpTo(TextChars, MaxText)}
                           \cup {ExtractedChunk("a.pdf", <<>>, <<>>, t, TRUE) :
                                    t \in {<<>>, <<"a", " ", "a">>}},
                 more \in {<<>>,
                           <<ExtractedChunk("a.pdf", <<1>>, <<1>>, <<"a", "\n", "a">>, FALSE)>>,
                           <<ExtractedChunk("a.pdf", <<>>, <<0>>, <<"a", "\n", "a">>, FALSE)>>} :
                    extracted = <<first>> \o more
          /\ \E cfg \in Configs : chunker = ChunkerStart(cfg)
       \/ /\ \E sp \in {2, 3} :
                 extracted = <<ExtractedChunk("a.pdf", <<0>>, <<0>>, LongText(sp), FALSE)>>
          /\ chunker = ChunkerStart(LongConfig)
    /\ run = [pc |-> "idle"]
    /\ ScanIdle
    /\ MergeIdle

\* the loop of _split_with_overlap is followed for at most MaxPieces windows
Chunk_takes(br) ==
    /\ chunker.pc \in {"next", "split", "pieces"}
    /\ Len(chunker.chunks) < MaxPieces
    /\ Chunk_branch(chunker, extracted) = br
Chunk_effect ==
    /\ chunker' = Chunk_step(chunker, extracted)
    /\ UNCHANGED <<scanVars, mergeVars, extracted, run>>

chunk_skipped == Chunk_takes("skipped") /\ Chunk_effect
chunk_blank == Chunk_takes("blank") /\ Chunk_effect
split_whole == Chunk_takes("whole") /\ Chunk_effect
split_long == Chunk_takes("long") /\ Chunk_effect
split_cut == Chunk_takes("cut") /\ Chunk_effect
split_full == Chunk_takes("full") /\ Chunk_effect
split_last == Chunk_takes("last") /\ Chunk_effect
piece_drop == Chunk_takes("drop") /\ Chunk_effect
piece_emit == Chunk_takes("emit") /\ Chunk_effect
chunk_advance == Chunk_takes("advance") /\ Chunk_effect
chunk_return == Chunk_takes("return") /\ Chunk_effect

NextChunk ==
    \/ chunk_skipped \/ chunk_blank \/ split_whole \/ split_long
    \/ split_cut \/ split_full \/ split_last
    \/ piece_drop \/ piece_emit \/ chunk_advance \/ chunk_return

SpecChunk == InitChunk /\ [][NextChunk]_vars

----------------------------------------------------------------------------
(* Properties of the Chunk Normalizer, under SpecChunk.                    *)

\* the chunks chunk() has emitted for the extracted chunk e
EmittedFor(e) ==
    SelectSeq(chunker.rag_chunks,
              LAMBDA c : c.metadata.page = e.page /\ c.metadata.order = e.order)

\* C12: for a SourceChunk whose trimmed text is no longer than max_chars,
\* chunk() returns exactly one chunk, holding the trimmed text, and it returns
\* no chunk if and only if the text is empty after trimming.
C12_ShortTextGivesOneChunk ==
    chunker.pc = "done" =>
        \A k \in 1..Len(extracted) :
            LET e == extracted[k]
                t == strip(e.text)
                mine == EmittedFor(e)
            IN  (~e.skipped /\ Len(t) <= chunker.max_chars) =>
                    /\ Len(mine) <= 1
                    /\ \A m \in 1..Len(mine) : mine[m].text = t
                    /\ (mine = <<>>) <=> (t = <<>>)

\* the span of piece sp of the text after piece.strip(): 0-based, end exclusive
StrippedSpan(text, sp) ==
    LET keep == {p \in sp.start..(sp.end - 1) : text[p + 1] \notin Whitespace}
    IN  IF keep = {} THEN [start |-> sp.start, end |-> sp.start]
        ELSE [start |-> Min(keep), end |-> Max(keep) + 1]

\* the spans of the chunks emitted for the text chunk() is working on
EmittedSpans ==
    LET mine == EmittedFor(extracted[chunker.ex + 1])
    IN  [m \in 1..Len(mine) |->
            StrippedSpan(chunker.base_text,
                         chunker.chunks[mine[m].metadata.split_index + 1])]

\* C13: for a text longer than max_chars, every character position of the
\* trimmed text lies in an emitted chunk, and every chunk after the first
\* begins at most overlap_chars before the end of the previous chunk.  (Read
\* in the code's favour: white space that piece.strip() takes off the end of
\* a piece is not asked for, only the characters that are not white space.)
C13_ChunksCoverTheText ==
    (/\ chunker.pc = "pieces"
     /\ chunker.j = Len(chunker.chunks)
     /\ Len(chunker.base_text) > chunker.max_chars) =>
        /\ \A p \in 0..(Len(chunker.base_text) - 1) :
              chunker.base_text[p + 1] \notin Whitespace =>
                  \E m \in 1..Len(EmittedSpans) :
                      EmittedSpans[m].start <= p /\ p < EmittedSpans[m].end
        /\ \A m \in 2..Len(EmittedSpans) :
              EmittedSpans[m].start >= EmittedSpans[m - 1].end - chunker.overlap_chars

\* C14: with overlap_chars < max_chars, every window of _split_with_overlap
\* starts strictly after the previous one.
C14_WindowStrictlyAdvances ==
    [][(/\ chunker.pc = "split"
        /\ chunker'.pc = "split"
        /\ chunker.overlap_chars < chunker.max_chars)
            => chunker'.start > chunker.start]_vars

----------------------------------------------------------------------------
(* The Template-Slot Extractor (extract_template_parts) and the section    *)
(* split of the strict pipeline.  full_text is a str with its line breaks. *)

WORK_HEADERS == {<<"w","o","r","k"," ","e","x","p","e","r","i","e","n","c","e">>}
EDU_HEADERS == {<<"a","c","a","d","e","m","i","c"," ","e","d","u","c","a","t","i","o","n">>}
OTHER_HEADERS ==
    {<<"p","r","o","f","e","s","s","i","o","n","a","l"," ","s","u","m","m","a","r","y">>,
     <<"s","k","i","l","l","s">>,
     <<"a","c","a","d","e","m","i","c"," ","p","r","o","j","e","c","t","s">>,
     <<"p","r","o","j","e","c","t","s">>,
     <<"a","c","h","i","e","v","e","m","e","n","t","s">>,
     <<"c","e","r","t","i","f","i","c","a","t","i","o","n","s">>}

\* s.splitlines(), for the line break "\n"
RECURSIVE splitlines(_)
splitlines(s) ==
    LET nl == {p \in 1..Len(s) : s[p] = "\n"}
    IN  IF s = <<>> THEN <<>>
        ELSE IF nl = {} THEN <<s>>
        ELSE <<SubSeq(s, 1, Min(nl) - 1)>> \o splitlines(SubSeq(s, Min(nl) + 1, Len(s)))

\* [ln.rstrip() for ln in full_text.splitlines()]
RstripLines(full_text) ==
    LET ls == splitlines(full_text)
    IN  [k \in 1..Len(ls) |-> rstrip(ls[k], Whitespace)]

\* a header search that returns the last matching line
find_header_last(ls, header_set) ==
    LET hits == {k \in 1..Len(ls) : normalize(ls[k]) \in header_set}
    IN  IF hits = {} THEN -1 ELSE Max(hits) - 1

\* find_header_idx: the 0-based index of the first matching line, or -1
find_header_idx(ls, header_set) ==
    LET hits == {k \in 1..Len(ls) : normalize(ls[k]) \in header_set}
    IN  IF hits = {} THEN -1 ELSE Min(hits) - 1

\* an end search that starts one line late
edu_end_late(ls, edu_idx) ==
    LET hits == {k \in (edu_idx + 2)..(Len(ls) - 1) : normalize(At(ls, k)) \in OTHER_HEADERS}
    IN  IF hits = {} THEN Len(ls) ELSE Min(hits)

\* edu_end: the next known header after edu_idx, else len(lines)
edu_end(ls, edu_idx) ==
    LET hits == {k \in (edu_idx + 1)..(Len(ls) - 1) : normalize(At(ls, k)) \in OTHER_HEADERS}
    IN  IF hits = {} THEN Len(ls) ELSE Min(hits)

\* extract_template_parts(full_text): raised, or the triple it returns
extract_template_parts(full_text) ==
    LET ls == RstripLines(full_text)
        work_idx == find_header_idx(ls, WORK_HEADERS)
        edu_idx == find_header_idx(ls, EDU_HEADERS)
    IN  IF work_idx = -1 \/ edu_idx = -1 \/ edu_idx <= work_idx
        THEN [raised |-> TRUE, prefix |-> <<>>, edu_header |-> <<>>, suffix |-> <<>>]
        ELSE [raised |-> FALSE,
              prefix |-> SubSeq(ls, 1, work_idx + 1),
              edu_header |-> <<At(ls, edu_idx)>>,
              suffix |-> SubSeq(ls, edu_end(ls, edu_idx) + 1, Len(ls))]

----------------------------------------------------------------------------
(* The template run: extract_template_parts called on a template text.     *)

MaxTemplateLines == 6

s_WORK == <<"W","O","R","K"," ","E","X","P","E","R","I","E","N","C","E">>
s_Edu == <<"A","c","a","d","e","m","i","c"," "," ","E","d","u","c","a","t","i","o","n"," ">>
s_Skills == <<"S","k","i","l","l","s">>
s_x == <<"x">>

\* lines of a template: the two required headers (one with a wide gap and a
\* trailing blank), another known header and a body line
TemplateLineSet == {s_WORK, s_Edu, s_Skills, s_x}

InitTemplate ==
    /\ extracted = <<>>
    /\ chunker = [pc |-> "idle"]
    /\ \E ls \in SeqsUpTo(TemplateLineSet, MaxTemplateLines) :
          run = [pc |-> "template", template_text |-> join(<<"\n">>, ls)]
    /\ ScanIdle
    /\ MergeIdle

\* raise RuntimeError("Template is missing ... headers or order is wrong.")
parts_raise ==
    /\ run.pc = "template"
    /\ extract_template_parts(run.template_text).raised
    /\ run' = [pc |-> "raised", template_text |-> run.template_text,
               error |-> "MissingTemplateStructure"]
    /\ UNCHANGED <<scanVars, mergeVars, extracted, chunker>>

\* return prefix, edu_header, suffix
parts_return ==
    /\ run.pc = "template"
    /\ ~extract_template_parts(run.template_text).raised
    /\ run' = [pc |-> "parts", template_text |-> run.template_text,
               parts |-> extract_template_parts(run.template_text)]
    /\ UNCHANGED <<scanVars, mergeVars, extracted, chunker>>

NextTemplate == parts_raise \/ parts_return

SpecTemplate == InitTemplate /\ [][NextTemplate]_vars

----------------------------------------------------------------------------
(* Properties of the Template-Slot Extractor, under SpecTemplate.          *)

\* the lines of the template text and the 1-based indices of its header lines
TplLines == splitlines(run.template_text)
HeaderAt(header_set) == {k \in 1..Len(TplLines) : normalize(TplLines[k]) \in header_set}

\* C15 (as stated): extract_template_parts raises if and only if the template
\* has no work-experience header line, or no academic-education header line,
\* or no academic-education header line strictly after the first
\* work-experience header line; otherwise it returns a triple.
C15_RaisesIffNoEducationAfterWork ==
    run.pc \in {"raised", "parts"} =>
        (run.pc = "raised" <=>
            \/ HeaderAt(WORK_HEADERS) = {}
            \/ HeaderAt(EDU_HEADERS) = {}
            \/ ~\E e \in HeaderAt(EDU_HEADERS) : e > Min(HeaderAt(WORK_HEADERS)))

\* C15 (amended): it raises if and only if the template has no work-experience
\* header line, or no academic-education header line, or its first
\* academic-education header line is not after its first work-experience
\* header line.
C15_RaisesIffFirstEducationNotAfterWork ==
    run.pc \in {"raised", "parts"} =>
        (run.pc = "raised" <=>
            \/ HeaderAt(WORK_HEADERS) = {}
            \/ HeaderAt(EDU_HEADERS) = {}
            \/ Min(HeaderAt(EDU_HEADERS)) < Min(HeaderAt(WORK_HEADERS)))

C15_Witness ==
    /\ run.pc = "raised"
    /\ HeaderAt(WORK_HEADERS) # {}
    /\ \E e1, e2 \in HeaderAt(EDU_HEADERS) :
          e1 < Min(HeaderAt(WORK_HEADERS)) /\ Min(HeaderAt(WORK_HEADERS)) < e2

\* C16: on success prefix is the lines up to and including the
\* work-experience header, education_header the one education header line,
\* and suffix the lines from the end of the education section on: from the
\* first line after the education header that is another known section
\* header, or nothing if there is none.  (Lines are the right-trimmed lines.)
C16_PartsAreTheSlots ==
    run.pc = "parts" =>
        LET L == [k \in 1..Len(TplLines) |-> rstrip(TplLines[k], Whitespace)]
            w == Min(HeaderAt(WORK_HEADERS))
            e == Min(HeaderAt(EDU_HEADERS))
            x == Len(L) - Len(run.parts.suffix) + 1
        IN  /\ run.parts.prefix = SubSeq(L, 1, w)
            /\ run.parts.edu_header = <<L[e]>>
            /\ run.parts.suffix = SubSeq(L, x, Len(L))
            /\ x > e
            /\ x <= Len(L) => x \in HeaderAt(OTHER_HEADERS)
            /\ \A k \in (e + 1)..(x - 1) : k \notin HeaderAt(OTHER_HEADERS)

C16_Witness ==
    /\ run.pc = "parts"
    /\ Len(run.parts.suffix) >= 2
    /\ Len(run.parts.prefix) + 1 + Len(run.parts.suffix) <= Len(TplLines) - 2
    /\ run.parts.edu_header = <<SubSeq(s_Edu, 1, Len(s_Edu) - 1)>>

\* is sub a subsequence of sq (the same elements in the same order)?
RECURSIVE IsSubsequence(_, _)
IsSubsequence(sub, sq) ==
    IF sub = <<>> THEN TRUE
    ELSE IF sq = <<>> THEN FALSE
    ELSE IF sub[1] = sq[1] THEN IsSubsequence(Tail(sub), Tail(sq))
    ELSE IsSubsequence(sub, Tail(sq))

\* the template lines of the other sections: the lines whose latest known
\* header line at or before them is one of OTHER_HEADERS
OtherSectionLines ==
    LET known == HeaderAt(WORK_HEADERS) \cup HeaderAt(EDU_HEADERS) \cup HeaderAt(OTHER_HEADERS)
        under(k) == {h \in known : h <= k}
        mine == {k \in 1..Len(TplLines) :
                    under(k) # {} /\ Max(under(k)) \in HeaderAt(OTHER_HEADERS)}
    IN  [m \in 1..Cardinality(mine) |->
            rstrip(TplLines[Ascending(mine)[m]], Whitespace)]

\* C17: the splice prefix + work + education_header + education + suffix keeps
\* every template line of any other section, also of a known section between
\* the work-experience header and the education header, in its order.
C17_OtherSectionsArePreserved ==
    run.pc = "parts" =>
        IsSubsequence(OtherSectionLines, run.parts.prefix \o run.parts.suffix)

----------------------------------------------------------------------------
(* The pipeline (main.py).  The frame of main() is the record `run`; the   *)
(* calls it makes to the text-generation and export collaborators are      *)
(* logged in run.calls.  error holds the spec's name of the RuntimeError.   *)

\* (page or 0, order or 0) of a <= that of b
OrderKeyLeq(a, b) ==
    \/ Or0(a.page) < Or0(b.page)
    \/ Or0(a.page) = Or0(b.page) /\ Or0(a.order) <= Or0(b.order)

\* chunks.sort(key=order_key): stable
RECURSIVE sort_by_order_key(_)
sort_by_order_key(cs) ==
    IF cs = <<>> THEN <<>>
    ELSE LET rest == sort_by_order_key(SubSeq(cs, 1, Len(cs) - 1))
             c == cs[Len(cs)]
             pos == Cardinality({k \in 1..Len(rest) : OrderKeyLeq(rest[k], c)})
         IN  SubSeq(rest, 1, pos) \o <<c>> \o SubSeq(rest, pos + 1, Len(rest))

\* the keys of grouped, in insertion order: the files of the chunks cs
RECURSIVE FilesOf(_)
FilesOf(cs) ==
    IF cs = <<>> THEN <<>>
    ELSE LET before == FilesOf(SubSeq(cs, 1, Len(cs) - 1))
             f == cs[Len(cs)].source_file
         IN  IF \E k \in 1..Len(before) : before[k] = f THEN before
             ELSE Append(before, f)

\* build_full_text_by_file: the dict as <<[file, text]>> in insertion order
build_full_text_by_file(extracted_chunks) ==
    LET kept == SelectSeq(extracted_chunks, LAMBDA c : ~IsSkipped(c))
        files == FilesOf(kept)
        text(f) ==
            LET chunks == sort_by_order_key(SelectSeq(kept, LAMBDA c : c.source_file = f))
                filled == SelectSeq(chunks, LAMBDA x : strip(x.text) # <<>>)
            IN  join(<<"\n">>, [k \in 1..Len(filled) |-> filled[k].text])
    IN  [k \in 1..Len(files) |-> [file |-> files[k], text |-> text(files[k])]]

\* pick_template_resume: the first of the longest texts
pick_template_resume(texts_by_file) ==
    LET best == Min({k \in 1..Len(texts_by_file) :
                        \A m \in 1..Len(texts_by_file) :
                            Len(texts_by_file[m].text) <= Len(texts_by_file[k].text)})
    IN  texts_by_file[best]

\* the loop of split_sections: the lines each section has collected
RECURSIVE SplitLines(_, _, _)
SplitLines(ls, current, sections) ==
    IF ls = <<>> THEN sections
    ELSE IF normalize(ls[1]) \in WORK_HEADERS
         THEN SplitLines(Tail(ls), "work_experience", sections)
    ELSE IF normalize(ls[1]) \in EDU_HEADERS
         THEN SplitLines(Tail(ls), "academic_education", sections)
    ELSE SplitLines(Tail(ls), current, [sections EXCEPT ![current] = Append(@, ls[1])])

\* split_sections(full_text): section name -> text; a section the text does
\* not have is "", as sections.get(name, "") reads it
split_sections(full_text) ==
    LET v == SplitLines(RstripLines(full_text), "root",
                        [root |-> <<>>, work_experience |-> <<>>,
                         academic_education |-> <<>>])
    IN  [name \in {"root", "work_experience", "academic_education"} |->
            strip(join(<<"\n">>, v[name]))]

\* final_resume_text of main
final_resume_text(parts, rewritten_work, rewritten_edu) ==
    strip(rstrip(join(<<"\n">>, parts.prefix), Whitespace) \o <<"\n">>
          \o strip(rewritten_work) \o <<"\n", "\n">>
          \o rstrip(join(<<"\n">>, parts.edu_header), Whitespace) \o <<"\n">>
          \o strip(rewritten_edu) \o <<"\n", "\n">>
          \o lstrip(join(<<"\n">>, parts.suffix), Whitespace))

\* the locals of main() on entry
MainStart(jd) ==
    [pc |-> "start", job_description |-> jd, texts_by_file |-> <<>>,
     template_text |-> <<>>, f |-> 0, all_roles |-> <<>>, all_edu |-> <<>>,
     rewritten_work |-> <<>>, rewritten_edu |-> <<>>, calls |-> <<>>,
     error |-> "", final |-> <<>>]

\* a check that looks at the roles only
NoBlocksOfRoles(rs, es) == rs = <<>>

\* not roles / not edus
NoBlocks(rs, es) == rs = <<>> \/ es = <<>>

Raise(r, err) == [r EXCEPT !.pc = "raised", !.error = err]

\* Chunker.chunk(extracted) run to its end
RECURSIVE Chunk_run(_, _)
Chunk_run(ck, exs) ==
    IF ck.pc = "done" THEN ck ELSE Chunk_run(Chunk_step(ck, exs), exs)

----------------------------------------------------------------------------
(* The pipeline run: main() on the chunks load_folder returns for two      *)
(* files, step by step.                                                    *)

MaxPages == 2

\* page texts: a work-experience section with one role, an education section
\* with one entry, both in the wrong order, and a page with neither
P_work == join(<<"\n">>, <<s_WORK, s_A_C, s_dates, s_DEV, s_bullet_x>>)
P_edu == join(<<"\n">>, <<s_Edu, s_Bc, s_d>>)
P_rev == join(<<"\n">>, <<P_edu, P_work>>)

Pages ==
    {[text |-> t, skipped |-> FALSE] : t \in {P_work, P_edu, P_rev, s_x}}
        \cup {[text |-> t, skipped |-> TRUE] : t \in {<<>>, <<"#">>}}

\* the chunks of file f: its pages in order, a skip-flagged chunk without
\* page and order
FileChunks(f, ps) ==
    [k \in 1..Len(ps) |->
        ExtractedChunk(f, IF ps[k].skipped THEN <<>> ELSE <<k - 1>>,
                       IF ps[k].skipped THEN <<>> ELSE <<k - 1>>,
                       ps[k].text, ps[k].skipped)]

\* load_folder returns the files in the order rglob yields them
InitPipeline ==
    /\ \E pa \in SeqsUpTo(Pages, MaxPages), pb \in SeqsUpTo(Pages, 1) :
          extracted \in {FileChunks("a.pdf", pa) \o FileChunks("b.pdf", pb),
                         FileChunks("b.pdf", pb) \o FileChunks("a.pdf", pa)}
    /\ \E jd \in {<<>>, <<"j", "d">>} : run = MainStart(jd)
    /\ chunker = [pc |-> "idle"]
    /\ ScanIdle
    /\ MergeIdle

\* what a text-generation call may return
Answers == {<<>>, <<"r">>}

\* the job description is blank
main_no_jd ==
    /\ run.pc = "start"
    /\ strip(run.job_description) = <<>>
    /\ run' = Raise(run, "EmptyJobDescription")
    /\ UNCHANGED <<scanVars, mergeVars, extracted, chunker>>

\* no document has text
main_no_text ==
    /\ run.pc = "start"
    /\ strip(run.job_description) # <<>>
    /\ build_full_text_by_file(extracted) = <<>>
    /\ run' = Raise(run, "NoResumeText")
    /\ UNCHANGED <<scanVars, mergeVars, extracted, chunker>>

\* the document texts are built and the template is picked
main_texts ==
    /\ run.pc = "start"
    /\ strip(run.job_description) # <<>>
    /\ LET texts_by_file == build_full_text_by_file(extracted)
       IN  /\ texts_by_file # <<>>
           /\ run' = [run EXCEPT !.texts_by_file = texts_by_file,
                                 !.template_text = pick_template_resume(texts_by_file).text,
                                 !.f = 0, !.pc = "parse"]
    /\ UNCHANGED <<scanVars, mergeVars, extracted, chunker>>

\* one turn of the loop over the documents
main_file ==
    /\ run.pc = "parse"
    /\ run.f < Len(run.texts_by_file)
    /\ LET doc == run.texts_by_file[run.f + 1]
           sections == split_sections(doc.text)
           work_txt == sections["work_experience"]
           edu_txt == sections["academic_education"]
       IN  run' = [run EXCEPT
                     !.all_roles =
                         IF work_txt # <<>>
                         THEN @ \o parse_work_experience(splitlines(work_txt), doc.file)
                         ELSE @,
                     !.all_edu =
                         IF edu_txt # <<>>
                         THEN @ \o parse_education(splitlines(edu_txt), doc.file)
                         ELSE @,
                     !.f = @ + 1]
    /\ UNCHANGED <<scanVars, mergeVars, extracted, chunker>>

\* the merged roles or the merged education entries are empty
main_no_blocks ==
    /\ run.pc = "parse"
    /\ run.f = Len(run.texts_by_file)
    /\ NoBlocks(merge_roles(run.all_roles), merge_education(run.all_edu))
    /\ run' = Raise(run, "NoExtractableBlocks")
    /\ UNCHANGED <<scanVars, mergeVars, extracted, chunker>>

main_merged ==
    /\ run.pc = "parse"
    /\ run.f = Len(run.texts_by_file)
    /\ ~NoBlocks(merge_roles(run.all_roles), merge_education(run.all_edu))
    /\ run' = [run EXCEPT !.pc = "write_work"]
    /\ UNCHANGED <<scanVars, mergeVars, extracted, chunker>>

\* generate_from_prompt_file for the work experience returns
main_work ==
    /\ run.pc = "write_work"
    /\ \E answer \in Answers :
          run' = [run EXCEPT !.calls = Append(@, "generate_from_prompt_file"),
                            !.rewritten_work = answer, !.pc = "write_edu"]
    /\ UNCHANGED <<scanVars, mergeVars, extracted, chunker>>

\* generate_from_prompt_file for the education returns
main_edu ==
    /\ run.pc = "write_edu"
    /\ \E answer \in Answers :
          run' = [run EXCEPT !.calls = Append(@, "generate_from_prompt_file"),
                            !.rewritten_edu = answer, !.pc = "template"]
    /\ UNCHANGED <<scanVars, mergeVars, extracted, chunker>>

\* generate_from_prompt_file raises (no prompt file, HTTP error, time-out)
main_writer_raises ==
    /\ run.pc \in {"write_work", "write_edu"}
    /\ run' = Raise([run EXCEPT !.calls = Append(@, "generate_from_prompt_file")],
                    "WriterError")
    /\ UNCHANGED <<scanVars, mergeVars, extracted, chunker>>

\* extract_template_parts raises
main_no_slots ==
    /\ run.pc = "template"
    /\ extract_template_parts(run.template_text).raised
    /\ run' = Raise(run, "MissingTemplateStructure")
    /\ UNCHANGED <<scanVars, mergeVars, extracted, chunker>>

\* the final text is spliced and exported
main_export ==
    /\ run.pc = "template"
    /\ ~extract_template_parts(run.template_text).raised
    /\ run' = [run EXCEPT
                  !.final = final_resume_text(extract_template_parts(run.template_text),
                                              run.rewritten_work, run.rewritten_edu),
                  !.calls = Append(@, "export"), !.pc = "done"]
    /\ UNCHANGED <<scanVars, mergeVars, extracted, chunker>>

NextPipeline ==
    \/ main_no_jd \/ main_no_text \/ main_texts \/ main_file
    \/ main_no_blocks \/ main_merged \/ main_work \/ main_edu
    \/ main_writer_raises \/ main_no_slots \/ main_export

SpecPipeline == InitPipeline /\ [][NextPipeline]_vars

----------------------------------------------------------------------------
(* Properties of the pipeline, under SpecPipeline.                         *)

\* C18: if extraction over all documents produced zero role blocks or zero
\* education blocks, the run ends with NoExtractableBlocks and has made no
\* ResumeWriter call and no DocxExporter call.
C18_NoBlocksIsFatalBeforeAnyCall ==
    (/\ run.pc \in {"write_work", "write_edu", "template", "done", "raised"}
     /\ run.error \notin {"EmptyJobDescription", "NoResumeText"}
     /\ (run.all_roles = <<>> \/ run.all_edu = <<>>)) =>
        /\ run.pc = "raised"
        /\ run.error = "NoExtractableBlocks"
        /\ run.calls = <<>>

C18_Witness ==
    /\ run.pc = "raised"
    /\ run.error = "NoExtractableBlocks"
    /\ run.all_roles # <<>>
    /\ run.all_edu = <<>>
    /\ Len(run.texts_by_file) = 2

\* C19: on a run whose chosen template lacks the required headers or has them
\* out of order, no text-generation call is made (the failure is reported
\* before any).
C19_TemplateFailureBeforeGeneration ==
    (/\ run.texts_by_file # <<>>
     /\ extract_template_parts(run.template_text).raised) =>
        \A k \in 1..Len(run.calls) : run.calls[k] # "generate_from_prompt_file"

\* the configuration chunk() is called with on the pipeline's chunks
PipelineChunker == [max_chars |-> 24, overlap_chars |-> 0, min_chunk_chars |-> 1]

\* C20: a skip-flagged chunk is left out and is never fatal: chunk() emits no
\* chunk for it, no document text of build_full_text_by_file holds its text
\* (while the text of every other chunk is there), and the document texts, the
\* only thing the rest of the run reads of the chunks, are those of the input
\* without its skip-flagged chunks.
C20_SkippedChunkIsExcluded ==
    LET flagged == {k \in 1..Len(extracted) : extracted[k].skipped}
        rags == Chunk_run(ChunkerStart(PipelineChunker), extracted).rag_chunks
        without == SelectSeq(extracted, LAMBDA c : ~c.skipped)
    IN  /\ run.pc = "parse" /\ run.f = 0 =>
              /\ \A c \in {rags[m] : m \in 1..Len(rags)} :
                    /\ c.metadata.page # <<>>
                    /\ ~contains(c.text, <<"#">>)
              /\ \A k \in 1..Len(extracted) : k \notin flagged =>
                    \E c \in {rags[m] : m \in 1..Len(rags)} :
                        /\ c.metadata.source_file = extracted[k].source_file
                        /\ c.metadata.page = extracted[k].page
              /\ \A d \in {run.texts_by_file[m] : m \in 1..Len(run.texts_by_file)} :
                    ~contains(d.text, <<"#">>)
              /\ \A k \in 1..Len(extracted) : k \notin flagged =>
                    \E d \in {run.texts_by_file[m] : m \in 1..Len(run.texts_by_file)} :
                        d.file = extracted[k].source_file /\ contains(d.text, extracted[k].text)
        /\ (run.pc \notin {"idle", "start"} /\ run.error # "EmptyJobDescription") =>
              run.texts_by_file = build_full_text_by_file(without)

C20_Witness ==
    /\ run.pc = "done"
    /\ \E k \in 1..Len(extracted) : extracted[k].skipped /\ extracted[k].text # <<>>

----------------------------------------------------------------------------
(* Provenance and the frame of the Evidence Merger, under SpecMerge.       *)

\* the source files of the blocks of bl (as passed in) that carry the key
ContributedFiles(kd, bl, key) ==
    UNION {Elems(c.source_files) : c \in Elems(Contributing(kd, bl, key))}

\* C21: in every block the merger returns, source_files holds exactly the
\* source files of the blocks that contributed to its key, each once, in
\* sorted order.
C21_SourceFilesAreSortedUnion ==
    mpc = "returned" =>
        \A b \in Elems(Result) :
            /\ Elems(b.source_files) = ContributedFiles(kind, all_blocks, MergeKey(kind, b))
            /\ \A k, m \in 1..Len(b.source_files) :
                  k < m => \E p, q \in 1..Len(Files) :
                               /\ p < q
                               /\ Files[p] = b.source_files[k]
                               /\ Files[q] = b.source_files[m]

\* two files met in descending order, and a file met twice
C21_Witness ==
    /\ mpc = "returned"
    /\ Len(all_blocks) = 3
    /\ Len(Result) = 1
    /\ all_blocks[1].source_files = <<Files[2]>>
    /\ Result[1].source_files = Files


\* C22: the mergers leave every block of their input list as it was passed in:
\* its bullets, header fields and source_files.
C22_InputBlocksAreUnchanged == heap = all_blocks


\* the chunks exs as load_folder returns them when it meets the files in the
\* order of their paths
InPathOrder(exs) ==
    SelectSeq(exs, LAMBDA c : c.source_file = Files[1])
        \o SelectSeq(exs, LAMBDA c : c.source_file = Files[2])

\* C23: the order in which main feeds the documents to the parsers and the
\* mergers, and the template it picks, do not depend on the order in which
\* load_folder met the files: they are those of the run that meets the files
\* in path order.
C23_DocumentOrderIsFixed ==
    (run.pc = "parse" /\ run.f = 0) =>
        /\ run.texts_by_file = build_full_text_by_file(InPathOrder(extracted))
        /\ run.template_text
               = pick_template_resume(build_full_text_by_file(InPathOrder(extracted))).text

----------------------------------------------------------------------------
(* The Canonical Template builder (template_builder.py).  A parsed resume  *)
(* is a function from the section names it has to their texts.  The frame  *)
(* of build_canonical_template is the record `run`: name, contact, merged, *)
(* (the dict as its items in insertion order) and, for the loop over the  *)
(* skills, the index r of the resume, seen and skill_lines.                *)

\* the sections of the last loop of build_canonical_template
LONGEST_SECTIONS ==
    <<"WORK EXPERIENCE", "ACADEMIC EDUCATION", "ACADEMIC PROJECTS", "PROJECTS",
      "ACHIEVEMENTS">>

\* r.get(key, "")
get(r, key) == IF key \in DOMAIN r THEN r[key] ELSE <<>>

\* a choice that takes the first candidate
first_of(items) == IF items = <<>> THEN <<>> ELSE items[1]

\* max(items, key=len, default=""): the first of the longest
max_by_len(items) ==
    IF items = <<>> THEN <<>>
    ELSE items[Min({k \in 1..Len(items) :
                       \A m \in 1..Len(items) : Len(items[m]) <= Len(items[k])})]

\* (r.get(key, "").strip() for r in parsed_resumes)
stripped_values(parsed_resumes, key) ==
    [k \in 1..Len(parsed_resumes) |-> strip(get(parsed_resumes[k], key))]

\* [r.get(sec, "").strip() for r in parsed_resumes if r.get(sec)]
candidates(parsed_resumes, sec) ==
    stripped_values(SelectSeq(parsed_resumes, LAMBDA r : get(r, sec) # <<>>), sec)

\* a key that is the line as written
skill_key_raw(ln) == ln

\* n = " ".join(ln.lower().split())
skill_key(ln) == join(<<" ">>, split(lower(ln)))

\* for ln in sk.splitlines(): the lines of one resume are added to
\* fr = [seen, skill_lines]
RECURSIVE add_skill_lines(_, _)
add_skill_lines(lns, fr) ==
    IF lns = <<>> THEN fr
    ELSE IF skill_key(lns[1]) = <<>> \/ skill_key(lns[1]) \in fr.seen
         THEN add_skill_lines(Tail(lns), fr)
    ELSE add_skill_lines(Tail(lns),
                         [seen |-> fr.seen \cup {skill_key(lns[1])},
                          skill_lines |-> Append(fr.skill_lines, strip(lns[1]))])

\* the locals of build_canonical_template on entry
CanonStart(parsed_resumes) ==
    [pc |-> "heads", parsed_resumes |-> parsed_resumes, name |-> <<>>,
     contact |-> <<>>, merged |-> <<>>, r |-> 0, seen |-> {}, skill_lines |-> <<>>]

MaxResumes == 2

\* field texts: blank, two of one trimmed length, a longer one
t_blank == <<" ">>
t_ab == <<" ", "a", "b">>
t_cd == <<"c", "d">>
t_xyz == <<"x", "y", "z", " ">>

\* skill texts: two spellings of one line; a new line, an empty line and a
\* third spelling
t_skills_1 == <<"P", "y", " ", " ", "x", "\n", "p", "y", " ", "x", " ">>
t_skills_2 == <<" ", "s", "q", "l", "\n", "\n", "P", "Y", " ", "X">>

\* a parsed resume: v in the sections of one group, w in those of the other,
\* sk as its skills; <<>> for a section the resume does not have
ParsedResume(v, w, sk) ==
    LET of_v == {"NAME", "PROFESSIONAL SUMMARY", "WORK EXPERIENCE",
                 "ACADEMIC PROJECTS", "ACHIEVEMENTS"}
        of_w == {"CONTACT", "ACADEMIC EDUCATION", "PROJECTS"}
        keys == {k \in of_v : v # <<>>} \cup {k \in of_w : w # <<>>}
                    \cup {k \in {"SKILLS"} : sk # <<>>}
    IN  [k \in keys |-> IF k \in of_v THEN v[1] ELSE IF k \in of_w THEN w[1] ELSE sk[1]]

ParsedResumes ==
    {ParsedResume(v, w, sk) :
        v \in {<<>>, <<t_blank>>, <<t_ab>>, <<t_cd>>, <<t_xyz>>},
        w \in {<<>>, <<t_cd>>},
        sk \in {<<>>, <<t_skills_1>>, <<t_skills_2>>}}

InitCanonical ==
    /\ extracted = <<>>
    /\ chunker = [pc |-> "idle"]
    /\ \E rs \in SeqsUpTo(ParsedResumes, MaxResumes) : run = CanonStart(rs)
    /\ ScanIdle
    /\ MergeIdle

\* name, contact and the summary
canon_heads ==
    /\ run.pc = "heads"
    /\ run' = [run EXCEPT
                  !.name = strip(max_by_len(stripped_values(run.parsed_resumes, "NAME"))),
                  !.contact = strip(max_by_len(stripped_values(run.parsed_resumes, "CONTACT"))),
                  !.merged = <<[sec |-> "PROFESSIONAL SUMMARY",
                                text |-> max_by_len(candidates(run.parsed_resumes,
                                                               "PROFESSIONAL SUMMARY"))]>>,
                  !.pc = "skills"]
    /\ UNCHANGED <<scanVars, mergeVars, extracted, chunker>>

\* a resume without skills: continue
skills_blank ==
    /\ run.pc = "skills"
    /\ run.r < Len(run.parsed_resumes)
    /\ strip(get(run.parsed_resumes[run.r + 1], "SKILLS")) = <<>>
    /\ run' = [run EXCEPT !.r = @ + 1]
    /\ UNCHANGED <<scanVars, mergeVars, extracted, chunker>>

\* the skill lines of one resume
skills_lines ==
    /\ run.pc = "skills"
    /\ run.r < Len(run.parsed_resumes)
    /\ LET sk == strip(get(run.parsed_resumes[run.r + 1], "SKILLS"))
           fr == add_skill_lines(splitlines(sk),
                                 [seen |-> run.seen, skill_lines |-> run.skill_lines])
       IN  /\ sk # <<>>
           /\ run' = [run EXCEPT !.seen = fr.seen, !.skill_lines = fr.skill_lines,
                                 !.r = @ + 1]
    /\ UNCHANGED <<scanVars, mergeVars, extracted, chunker>>

\* merged["SKILLS"] = "\n".join(skill_lines).strip()
skills_join ==
    /\ run.pc = "skills"
    /\ run.r = Len(run.parsed_resumes)
    /\ run' = [run EXCEPT
                  !.merged = Append(@, [sec |-> "SKILLS",
                                        text |-> strip(join(<<"\n">>, run.skill_lines))]),
                  !.pc = "sections"]
    /\ UNCHANGED <<scanVars, mergeVars, extracted, chunker>>

\* the longest text of each remaining section; return CanonicalTemplate(...)
canon_sections ==
    /\ run.pc = "sections"
    /\ run' = [run EXCEPT
                  !.merged = @ \o [k \in 1..Len(LONGEST_SECTIONS) |->
                                      [sec |-> LONGEST_SECTIONS[k],
                                       text |-> max_by_len(candidates(run.parsed_resumes,
                                                                      LONGEST_SECTIONS[k]))]],
                  !.pc = "built"]
    /\ UNCHANGED <<scanVars, mergeVars, extracted, chunker>>

NextCanonical ==
    canon_heads \/ skills_blank \/ skills_lines \/ skills_join \/ canon_sections

SpecCanonical == InitCanonical /\ [][NextCanonical]_vars

----------------------------------------------------------------------------
(* Properties of the Canonical Template builder, under SpecCanonical.      *)

\* the text the built template has for a field
BuiltText(field) ==
    CASE field = "NAME" -> run.name
      [] field = "CONTACT" -> run.contact
      [] OTHER -> LET at == {k \in 1..Len(run.merged) : run.merged[k].sec = field}
                  IN  run.merged[CHOOSE k \in at : TRUE].text

\* C24: NAME, CONTACT, PROFESSIONAL SUMMARY and each of the five other
\* sections is the trimmed text that one resume has for it, and no resume has
\* a longer trimmed text for it (so it is empty only when every resume has it
\* blank or not at all).
C24_FieldsAreOneLongestValue ==
    run.pc = "built" =>
        \A field \in {"NAME", "CONTACT", "PROFESSIONAL SUMMARY", "WORK EXPERIENCE",
                      "ACADEMIC EDUCATION", "ACADEMIC PROJECTS", "PROJECTS",
                      "ACHIEVEMENTS"} :
            /\ \/ run.parsed_resumes = <<>> /\ BuiltText(field) = <<>>
               \/ \E k \in 1..Len(run.parsed_resumes) :
                     BuiltText(field) = strip(get(run.parsed_resumes[k], field))
            /\ \A k \in 1..Len(run.parsed_resumes) :
                  Len(strip(get(run.parsed_resumes[k], field))) <= Len(BuiltText(field))

\* the longest value is the later resume's, the earlier one has a shorter one
C24_Witness ==
    /\ run.pc = "built"
    /\ Len(run.parsed_resumes) = 2
    /\ strip(get(run.parsed_resumes[1], "WORK EXPERIENCE")) = <<"a", "b">>
    /\ BuiltText("WORK EXPERIENCE") = <<"x", "y", "z">>
    /\ BuiltText("PROJECTS") = t_cd

\* the skill lines of the resumes, in input order
RECURSIVE InputSkillLines(_)
InputSkillLines(rs) ==
    IF rs = <<>> THEN <<>>
    ELSE splitlines(get(rs[1], "SKILLS")) \o InputSkillLines(Tail(rs))

\* C25: SKILLS is the union of the distinct non-empty skill lines: the
\* normalized texts (lower case, blanks collapsed) of its lines are those of
\* the input lines, each once, in first-seen order, and each line is the
\* trimmed input line that was seen first with that text.
C25_SkillsAreDistinctUnion ==
    run.pc = "built" =>
        LET given == SelectSeq(InputSkillLines(run.parsed_resumes),
                               LAMBDA ln : normalize(ln) # <<>>)
            lns == splitlines(BuiltText("SKILLS"))
            first(t) == Min({k \in 1..Len(given) : normalize(given[k]) = t})
        IN  /\ [k \in 1..Len(lns) |-> normalize(lns[k])]
                  = FirstOccurrences([k \in 1..Len(given) |-> normalize(given[k])])
            /\ \A k \in 1..Len(lns) : lns[k] = strip(given[first(normalize(lns[k]))])

\* two resumes with four non-empty skill lines of two distinct texts
C25_Witness ==
    /\ run.pc = "built"
    /\ Len(run.parsed_resumes) = 2
    /\ get(run.parsed_resumes[1], "SKILLS") = t_skills_1
    /\ get(run.parsed_resumes[2], "SKILLS") = t_skills_2
    /\ Len(splitlines(BuiltText("SKILLS"))) = 2

----------------------------------------------------------------------------
(* The three scans of the Block Extractor as one system: a scan of a       *)
(* work-experience region, of an education region or of a file's lines,    *)
(* each running to its end.                                                *)

MaxScanItems == 4

\* a bullet whose text holds a section label
s_bullet_label == <<"u2022"," ","m","y"," ","e","x","p","e","r","i","e","n","c","e">>

\* what a region or a file is made of: the three lines of a role header (one
\* with an upper-case first line, one without), a bullet, a lone marker and a
\* plain line; a header candidate, a section label, a bullet, a raw line and
\* a bullet that holds a label;
\* the two lines of an education entry, a bullet, a lone marker and a line
ScanItems(strat) ==
    CASE strat = "strict" ->
            {<<s_DEV, s_dates, s_DEV>>, <<s_Ac, s_dates, s_DEV>>, <<s_bullet_x>>,
             <<s_marker>>, <<s_Ac>>}
      [] strat = "generic" ->
            {<<s_header>>, <<s_section>>, <<s_bullet_x>>, <<s_raw>>, <<s_bullet_label>>}
      [] strat = "education" -> {<<s_Bc, s_d>>, <<s_bullet_x>>, <<s_marker>>, <<s_d>>}

InitScans ==
    /\ \E strat \in {"strict", "generic", "education"} :
       \E items \in SeqsUpTo(ScanItems(strat), MaxScanItems) :
          ScanIs(ScanStart(strat, StripLines(join(<<>>, items)), "a.pdf"))
    /\ MergeIdle
    /\ IngestIdle

NextScans == NextExtract \/ NextEducation

\* the step the scan under way takes
ScanStep ==
    CASE strategy = "strict" -> PWE_step(Cur)
      [] strategy = "generic" -> BEB_step(Cur)
      [] strategy = "education" -> PE_step(Cur)

\* a scan that has not returned takes its next step: the loops of one Python
\* call run on without waiting for anything.  This is WF_vars(NextScans)
\* written out, []<>~ENABLED <<NextScans>>_vars \/ []<><<NextScans>>_vars,
\* with the state predicate pc = "done" for "no step is enabled" (C27 checks
\* that every other state has a step that changes it)
SpecScans ==
    /\ InitScans
    /\ [][NextScans]_vars
    /\ ([]<>(pc = "done") \/ []<><<NextScans>>_vars)

\* the first line the scan has not consumed: j while build_experience_blocks
\* collects the lines of a candidate, else i
Frontier == IF strategy = "generic" /\ pc = "inner" THEN j ELSE i

\* the frontier after the step
FrontierNext == IF strategy' = "generic" /\ pc' = "inner" THEN j' ELSE i'

\* the step puts a line into a block: the open block's header, bullets or raw
\* lines change, or parse_education appends a pair
TakesLines ==
    \/ <<company, dates, title, bullets, raw_lines>>'
           # <<company, dates, title, bullets, raw_lines>>
    \/ strategy = "education" /\ roles' # roles

\* C27: each scan is one forward pass: the index i and the frontier never
\* decrease; every iteration of the outer loop that does not return moves the
\* frontier forward; every step that puts lines into a block moves the frontier
\* past them, so that no line is taken twice; a scan that has not returned
\* has a step that changes its state, and every scan returns.
C27_SingleForwardPass ==
    /\ [](pc # "done" => ScanStep # Cur)
    /\ [][/\ i' >= i
          /\ FrontierNext >= Frontier
          /\ (pc = "outer" /\ pc' # "done") => FrontierNext > Frontier
          /\ TakesLines => FrontierNext > Frontier]_vars
    /\ <>(pc = "done")

\* a scan has returned two blocks after a line it skipped
C27_Witness ==
    /\ pc = "done"
    /\ Len(roles) = 2
    /\ i = Len(lines)
    /\ roles[1] # roles[2]


\* C26: while the strict scan collects the bullets of a role, each line moves
\* the scan on by one line and: a lone marker changes no bullet and is
\* remembered; a line that starts with a marker becomes a new bullet, the
\* marker removed; a line after a lone marker becomes a new bullet; any other
\* line is appended, after a blank, to the last bullet (once there is one).
\* So every line after the first bullet goes whole into exactly one bullet,
\* in order.
C26_BulletAccumulation ==
    [][(strategy = "strict" /\ pc = "inner" /\ pc' = "inner") =>
          LET ln == lines[i + 1]
              lone == ln \in {<<"u2022">>, <<"-">>, <<"u2013">>}
          IN  /\ i' = i + 1
              /\ bullet_pending' = lone
              /\ bullets' =
                    IF lone THEN bullets
                    ELSE IF ln[1] \in {"u2022", "-", "u2013"}
                         THEN Append(bullets, strip(Tail(ln)))
                    ELSE IF bullet_pending THEN Append(bullets, ln)
                    ELSE IF bullets # <<>>
                         THEN [bullets EXCEPT ![Len(bullets)] = @ \o <<" ">> \o ln]
                    ELSE bullets]_vars

\* a bullet started by the line after a lone marker and continued by the next
C26_Witness ==
    /\ strategy = "strict"
    /\ pc = "inner"
    /\ bullets = << <<"A", "c", " ", "A", "c">> >>
    /\ lines[i - 2] = s_marker


----------------------------------------------------------------------------
(* The regions of the strict strategy against the education section of the *)
(* Template-Slot Extractor, under SpecTemplate: the template is one of the  *)
(* texts main splits with split_sections.                                   *)

\* the lines after the education header and before edu_end, as a region text
EducationSection(full_text) ==
    LET ls == RstripLines(full_text)
        edu_idx == find_header_idx(ls, EDU_HEADERS)
    IN  strip(join(<<"\n">>, SubSeq(ls, edu_idx + 2, edu_end(ls, edu_idx))))

\* C28: in a text that has both headers in order, neither region of
\* split_sections holds the header line of another known section, and the
\* education region is the education section that extract_template_parts
\* computes (it ends at the same line).
C28_RegionsEndAtKnownHeaders ==
    run.pc = "parts" =>
        LET s == split_sections(run.template_text)
        IN  /\ \A name \in {"work_experience", "academic_education"} :
                  \A ln \in Elems(splitlines(s[name])) :
                      normalize(ln) \notin OTHER_HEADERS
            /\ s["academic_education"] = EducationSection(run.template_text)


----------------------------------------------------------------------------
(* The cut of a window and the pieces that are kept, under SpecChunk.      *)

\* the cut the separators give in the window w: just after the rightmost
\* occurrence, within the last 350 characters of w, of the first separator
\* of the preference order that occurs there at all; -1 if none occurs
NiceCut(w) ==
    LET from == Max({0, Len(w) - 350})
        Occ(k) == {q \in from..(Len(w) - Len(separators[k])) :
                      SubSeq(w, q + 1, q + Len(separators[k])) = separators[k]}
        found == {k \in 1..Len(separators) : Occ(k) # {}}
    IN  IF found = {} THEN -1
        ELSE Max(Occ(Min(found))) + Len(separators[Min(found)])

\* C29: every window _split_with_overlap appends begins at start; it ends at
\* the end of the text if start + max_chars reaches it, else at the nice cut
\* if that leaves a piece longer than min_chunk_chars, else at
\* start + max_chars.
C29_CutRule ==
    [][(chunker.pc = "split" /\ Len(chunker'.chunks) = Len(chunker.chunks) + 1) =>
          LET text == chunker.base_text
              start == chunker.start
              far == start + chunker.max_chars
              cut == NiceCut(SubSeq(text, start + 1, far))
              new == chunker'.chunks[Len(chunker'.chunks)]
          IN  /\ new.start = start
              /\ new.end = IF far >= Len(text) THEN Len(text)
                           ELSE IF cut > chunker.min_chunk_chars THEN start + cut
                           ELSE far]_vars

\* the window "a\n " is cut after its newline, not after its later blank
C29_Witness ==
    /\ chunker.pc = "split"
    /\ chunker.base_text = <<"a", "\n", " ", "a", "a">>
    /\ chunker.max_chars = 3
    /\ chunker.min_chunk_chars = 1
    /\ chunker.chunks = <<[start |-> 0, end |-> 2]>>


\* C30: each piece of the text is taken in turn; a piece that is emitted has
\* a trimmed text of at least min_chunk_chars, and a piece that is dropped is
\* the final piece of its text and shorter than min_chunk_chars once trimmed.
C30_OnlyTheFinalPieceIsDropped ==
    [][(chunker.pc = "pieces" /\ chunker'.pc = "pieces" /\ chunker'.j = chunker.j + 1) =>
          LET sp == chunker.chunks[chunker.j + 1]
              piece == strip(SubSeq(chunker.base_text, sp.start + 1, sp.end))
          IN  IF chunker'.rag_chunks = chunker.rag_chunks
              THEN /\ chunker.j + 1 = Len(chunker.chunks)
                   /\ Len(piece) < chunker.min_chunk_chars
              ELSE /\ chunker'.rag_chunks = Append(chunker.rag_chunks,
                                                   chunker'.rag_chunks[Len(chunker'.rag_chunks)])
                   /\ chunker'.rag_chunks[Len(chunker'.rag_chunks)].text = piece
                   /\ Len(piece) >= chunker.min_chunk_chars]_vars


----------------------------------------------------------------------------
(* The education evidence parsed back, under SpecMerge.                    *)

\* C31: parse_education applied to the education evidence of the merged
\* entries returns as many entries, in the same order, with the same
\* institution and degree lines.
C31_EducationRoundTrip ==
    mpc = "education_reparsed" =>
        /\ Len(out) = Len(Result)
        /\ \A k \in 1..Len(out) :
              /\ out[k].institution_line = Result[k].institution_line
              /\ out[k].degree_line = Result[k].degree_line

\* three entries of two files merged to two, the first with a lone marker as
\* its institution line
C31_Witness ==
    /\ mpc = "education_reparsed"
    /\ Len(all_blocks) = 3
    /\ Len(Result) = 2
    /\ Len(out) = 2
    /\ Result[1].institution_line = s_marker
    /\ Result[1].source_files = Files


----------------------------------------------------------------------------
(* The section-header test of the generic scan, under SpecScans.           *)

\* the fixed section labels
SectionLabels == {ROLE_HEADER_HINTS[h] : h \in 1..Len(ROLE_HEADER_HINTS)}

\* C32: while the generic scan collects the lines of a block, a line whose
\* normalized text is none of the section labels and that is no role header
\* does not end the block: it is taken as evidence and the scan moves on by
\* one line.  A line whose normalized text is a label ends the block.
C32_OnlyLabelLinesAreSectionHeaders ==
    [][(strategy = "generic" /\ pc = "inner" /\ j < Len(lines)) =>
          LET nxt == lines[j + 1]
          IN  IF norm(nxt) \in SectionLabels
              THEN pc' = "outer" /\ i' = j
              ELSE ~looks_like_role_header(nxt) =>
                      /\ pc' = "inner"
                      /\ j' = j + 1
                      /\ raw_lines' = Append(raw_lines, nxt)]_vars


----------------------------------------------------------------------------
(* The keys of the Evidence Merger, under SpecMerge.                       *)

\* the normalized header lines a key is made of
KeyFields(kd, b) ==
    [k \in 1..Len(HeaderFields(kd, b)) |-> normalize(HeaderFields(kd, b)[k])]

\* C33: when merge_roles or merge_education returns, two of the blocks it
\* was given have the same key if and only if their normalized header lines
\* are equal, line by line; so it returns one block for each tuple of
\* normalized header lines.
C33_KeysAreInjective ==
    (mpc = "returned" /\ kind \in {"roles", "education"}) =>
        /\ \A a, b \in Elems(all_blocks) :
              MergeKey(kind, a) = MergeKey(kind, b)
                  <=> KeyFields(kind, a) = KeyFields(kind, b)
        /\ Len(Result) = Cardinality({KeyFields(kind, b) : b \in Elems(all_blocks)})


----------------------------------------------------------------------------
(* The identifiers of the chunks, under SpecChunk.                         *)

\* the provenance of an extracted chunk as given, and as an identifier
\* writes it (an absent page or order as 0)
Triple(e) == <<e.source_file, e.page, e.order>>
IdTriple(e) == <<e.source_file, Or0(e.page), Or0(e.order)>>

Distinct(sq) == \A a, b \in 1..Len(sq) : a # b => sq[a] # sq[b]

\* no two chunks share an identifier; the chunks of one extracted chunk come
\* with increasing split_index, and an identifier ends with the split_index
\* of its metadata
UniqueIds(rc) ==
    /\ Distinct([k \in 1..Len(rc) |-> rc[k].chunk_id])
    /\ \A a, b \in 1..Len(rc) :
          (/\ a < b
           /\ rc[a].metadata.source_file = rc[b].metadata.source_file
           /\ rc[a].metadata.page = rc[b].metadata.page
           /\ rc[a].metadata.order = rc[b].metadata.order)
              => rc[a].metadata.split_index < rc[b].metadata.split_index
    /\ \A a \in 1..Len(rc) :
          LET tail == <<"|", "s">> \o str(rc[a].metadata.split_index)
              id == rc[a].chunk_id
          IN  /\ Len(id) > Len(tail)
              /\ SubSeq(id, Len(id) - Len(tail) + 1, Len(id)) = tail

\* C34 as stated: if the extracted chunks have pairwise distinct
\* (source_file, page, order), the chunks emitted so far have unique
\* identifiers and increasing split indexes.
C34_UniqueForDistinctTriples ==
    Distinct([k \in 1..Len(extracted) |-> Triple(extracted[k])])
        => UniqueIds(chunker.rag_chunks)

\* C34, amended: if the extracted chunks have pairwise distinct
\* (source_file, page, order) with an absent page or order counted as 0, the
\* chunks emitted so far have unique identifiers, within one extracted chunk
\* strictly increasing split indexes, and identifiers that end with the
\* split_index of their metadata.
C34_UniqueForDistinctWrittenTriples ==
    Distinct([k \in 1..Len(extracted) |-> IdTriple(extracted[k])])
        => UniqueIds(chunker.rag_chunks)

\* two pieces of the first page and one of the second have been emitted
C34_Witness ==
    /\ chunker.pc = "done"
    /\ Len(extracted) = 2
    /\ extracted[2].page = <<1>>
    /\ Len(chunker.rag_chunks) = 3
    /\ chunker.rag_chunks[2].metadata.page = <<0>>
    /\ chunker.rag_chunks[2].metadata.split_index = 1
====
